---- MODULE Spec2Model ----
(***************************************************************************)
(* TextAnimationLab: the tokenizers (splitWords, splitChars), the delay    *)
(* scheduler (computeWordDelays, computeCharDelays, computeSplitDelays),   *)
(* the per-word timeline driven by the isPlaying prop, the shimmer wave    *)
(* of WordShimmer and LetterShimmer, the timer-driven Typewriter, and the  *)
(* play button of a showcase section.                                      *)
(*                                                                         *)
(* A string is a sequence of one-character strings.  Times are integer     *)
(* milliseconds.                                                           *)
(***************************************************************************)
EXTENDS Integers, Sequences, FiniteSets, TLC

VARIABLES
    \* harness of the pure delay functions
    argWords,           \* the token sequence handed to the function
    argStagger,         \* staggerMs
    argPunct,           \* punctDelay
    called,             \* which function produced `result` ("none" before a call)
    passed,             \* the token array and the stagger the call was given
    result,             \* the delay plan returned
    \* one mounted word preset (the composer and its word components)
    preset,             \* which preset component is mounted
    text,               \* prop text
    isPlaying,          \* prop isPlaying
    punctuationDelay,   \* prop punctuationDelay
    now,                \* the animation clock, ms
    toks,               \* the mounted word components, by index: props and shared values
    signals,            \* number of prop changes so far (bounded)
    cleanCycle,         \* history: playing since an arm of all words, props unchanged since
    atStop,             \* history: per word, its timeline state and scheduled start at the last stop
    shimmerPos,         \* the composer's shimmerPos shared value (WordShimmer, LetterShimmer)
    \* one mounted Typewriter
    twText,             \* prop text of the committed render
    twIsPlaying,        \* prop isPlaying of the committed render
    twPunctuationDelay, \* prop punctuationDelay of the committed render
    twNow,              \* the timer clock, ms
    visibleChars,       \* useState(0)
    timeoutRef,         \* timeoutRef.current: a timer id, or NoTimer for null
    timers,             \* the host's pending timeouts: id (cyc, idx) and due time
    closures,           \* the live closures of the typing effect, by effect run: the
                        \* text and punctuationDelay they captured, their variable index
    effectPending,      \* a render is committed and its typing effect has not run yet
    lastRun,            \* the last run of the typing effect: did it register a
                        \* cleanup, and which closure is its
    twSignals,          \* number of prop changes so far (bounded)
    firedStale,         \* history: a timer fired after the cleanup of its cycle
    cancelledDue,       \* history: due time of the timer the last effect run cleared
    shownAt,            \* history: when each character of the current cycle was typed,
                        \* in ms since the typing effect started the cycle
    cycleStart,         \* history: when the typing effect last ran
    \* one AnimationSection of the showcase
    scNow,              \* the timer clock, ms
    scIsPlaying,        \* useState(false): isPlaying
    showComponent,      \* useState(false): showComponent
    hideTimeoutRef,     \* hideTimeoutRef.current: a timer id, 0 for null
    startTimers,        \* pending setTimeout(..., 50) of handlePlay: id, due time, press
    hideTimers,         \* pending auto-stop timeouts: id, due time, press
    fadeOut,            \* due time of the running fade-out of fadeOpacity, 0 - 1 if none
    presses,            \* number of presses of the play button so far
    staleHideFired,     \* history: an auto-stop of an earlier press fired after a later press
    \* the showcase screen (AnimationLabScreen) and the key-value store
    likes,              \* useState(new Set()): the liked ids, in insertion order
    filterLiked,        \* useState(false)
    customText,         \* useState('')
    orderedAnimations,  \* useState(ANIMATIONS): the ids in list order
    stored,             \* the store: the blob under STORAGE_KEY and under ORDER_STORAGE_KEY
    storageUp,          \* the store answers; if not, getItem and setItem reject
    loads,              \* the two getItem promises of the mount effect: stage and data
    raised,             \* history: the errors nothing handled
    typed,              \* history: the custom text last typed, kept over a restart
    mounts,             \* history: number of starts of the screen
    shOps,              \* number of user operations so far (bounded)
    sinceMount          \* history: the user operations since the last start

delayVars == <<argWords, argStagger, argPunct, called, passed, result>>
seqVars == <<preset, text, isPlaying, punctuationDelay, now, toks, signals, cleanCycle, atStop,
             shimmerPos>>

twVars == <<twText, twIsPlaying, twPunctuationDelay, twNow, visibleChars, timeoutRef,
            timers, closures, effectPending, lastRun, twSignals, firedStale,
            cancelledDue, shownAt, cycleStart>>

scVars == <<scNow, scIsPlaying, showComponent, hideTimeoutRef, startTimers, hideTimers,
            fadeOut, presses, staleHideFired>>

shVars == <<likes, filterLiked, customText, orderedAnimations, stored, storageUp, loads,
            raised, typed, mounts, shOps, sinceMount>>

vars == <<delayVars, seqVars, twVars, scVars, shVars>>

-----------------------------------------------------------------------------
(* Bounds of the model                                                     *)

MaxWords == 5           \* longest token sequence handed to the delay functions
MaxWideWords == 2       \* longest token sequence drawn from the wider word pool
MaxSignals == 2         \* prop changes in one run of a mounted preset
MaxTime == 1200         \* the animation clock stops here
TickMs == 100           \* step of the animation clock
MaxTextLen == 5         \* longest text over the small alphabet handed to the tokenizers
MaxCount == 10          \* largest word count handed to the SkewPop composer
MaxPresses == 3         \* presses of the play button of one section
MaxScTime == 4600       \* the showcase clock stops here
ScTickMs == 20          \* short step of the showcase clock, while a start timer is pending
ScPauseMs == 2000       \* long step of the showcase clock
MaxShellOps == 3        \* user operations on the showcase screen in one run
MaxTwSignals == 2       \* prop changes in one run of a mounted Typewriter
MaxTwTime == 800        \* the timer clock stops here
TwTickMs == 80          \* longest step of the timer clock

-----------------------------------------------------------------------------
(* CONFIG, identical in every preset file                                  *)

punctPauseLong == 300
punctPauseShort == 150

(* Constants of the showcase                                               *)

AUTO_HIDE_MS == 4000
StartDelayMs == 50
FadeOutMs == 500

-----------------------------------------------------------------------------
(* Each specification runs one part; the variables of the other parts      *)
(* stay at these values.                                                   *)

\* timeoutRef.current = null
NoTimer == [cyc |-> 0, idx |-> 0]

\* no repeating sweep attached to shimmerPos
NoSweep == [start |-> 0 - 1, hi |-> 0, sweep |-> 0]

DelaysIdle ==
    /\ argWords = <<>>
    /\ argStagger = 0
    /\ argPunct = FALSE
    /\ called = "none"
    /\ passed = [tokens |-> <<>>, staggerMs |-> 0]
    /\ result = <<>>

SeqIdle ==
    /\ preset = "none"
    /\ text = <<>>
    /\ isPlaying = FALSE
    /\ punctuationDelay = FALSE
    /\ now = 0
    /\ toks = <<>>
    /\ signals = 0
    /\ cleanCycle = FALSE
    /\ atStop = <<>>
    /\ shimmerPos = [val |-> 0 - 5, anim |-> NoSweep]

TwIdle ==
    /\ twText = <<>>
    /\ twIsPlaying = FALSE
    /\ twPunctuationDelay = FALSE
    /\ twNow = 0
    /\ visibleChars = 0
    /\ timeoutRef = NoTimer
    /\ timers = {}
    /\ closures = <<>>
    /\ effectPending = FALSE
    /\ lastRun = [cleanup |-> FALSE, cyc |-> 0]
    /\ twSignals = 0
    /\ firedStale = FALSE
    /\ cancelledDue = 0 - 1
    /\ shownAt = <<>>
    /\ cycleStart = 0

ShowcaseIdle ==
    /\ scNow = 0
    /\ scIsPlaying = FALSE
    /\ showComponent = FALSE
    /\ hideTimeoutRef = 0
    /\ startTimers = {}
    /\ hideTimers = {}
    /\ fadeOut = 0 - 1
    /\ presses = 0
    /\ staleHideFired = FALSE

\* ANIMATIONS.map(a => a.id): the ids of the registry, in its order
ANIMATIONS ==
    <<"soft-fade", "line-slide", "scale-fade", "blur-reveal", "split-timing",
      "word-emphasis", "shimmer", "shimmer-letters", "slam-in", "rapid-fire",
      "elastic-snap", "typewriter">>

\* a stored blob by what JSON.parse makes of it: "none" (getItem resolves null),
\* "garbage" (not JSON), "number", "object", "null", "string" (items: its
\* characters) or "list" (items: its elements)
Blob(k, xs) == [kind |-> k, items |-> xs]

NoLoad == [stage |-> "done", data |-> Blob("none", <<>>)]

ShellIdle ==
    /\ likes = <<>>
    /\ filterLiked = FALSE
    /\ customText = <<>>
    /\ orderedAnimations = ANIMATIONS
    /\ stored = [likes |-> Blob("none", <<>>), order |-> Blob("none", <<>>)]
    /\ storageUp = TRUE
    /\ loads = [likes |-> NoLoad, order |-> NoLoad]
    /\ raised = {}
    /\ typed = <<>>
    /\ mounts = 0
    /\ shOps = 0
    /\ sinceMount = 0

-----------------------------------------------------------------------------
(* Strings                                                                 *)

Str_Hi == <<"H", "i", ",">>
Str_there == <<"t", "h", "e", "r", "e">>
Str_Stop == <<"S", "t", "o", "p", ".">>
Str_Now == <<"N", "o", "w">>
Str_Go == <<"G", "o", "!">>
Str_eh == <<"e", "h", "?">>

WordPool == {Str_Hi, Str_there, Str_Stop, Str_Now}
WidePool == WordPool \cup {Str_Go, Str_eh}

SeqsUpTo(S, n) == UNION {[1..k -> S] : k \in 0..n}

RECURSIVE JoinWith(_, _)
JoinWith(ws, sep) ==
    IF Len(ws) = 0 THEN <<>>
    ELSE IF Len(ws) = 1 THEN ws[1]
    ELSE ws[1] \o <<sep>> \o JoinWith(Tail(ws), sep)

\* String.prototype.slice(-1): the last character, "" for the empty string
SliceLast(w) == IF Len(w) = 0 THEN "" ELSE w[Len(w)]

\* '.!?'.includes(c) for a c of length at most 1: the empty string is included
IncludedInTerminals(c) == c = "" \/ c \in {".", "!", "?"}

\* text.split(sep): the pieces between separators, empty pieces kept
RECURSIVE SplitOn(_, _, _, _)
SplitOn(s, sep, i, cur) ==
    IF i > Len(s) THEN <<cur>>
    ELSE IF s[i] = sep THEN <<cur>> \o SplitOn(s, sep, i + 1, <<>>)
    ELSE SplitOn(s, sep, i + 1, Append(cur, s[i]))

NonEmpty(w) == Len(w) > 0

\* mutant: the empty pieces are not filtered out
splitWords_noFilter(t) == SplitOn(t, " ", 1, <<>>)

splitWords(t) == SelectSeq(SplitOn(t, " ", 1, <<>>), NonEmpty)

\* mutant: blanks are dropped
splitChars_noBlanks(t) ==
    LET NotBlank(c) == c # " "
        kept == SelectSeq(t, NotBlank)
    IN  [i \in 1..Len(kept) |-> <<kept[i]>>]

splitChars(t) == [i \in 1..Len(t) |-> <<t[i]>>]

-----------------------------------------------------------------------------
(* Delay scheduler                                                         *)

\* the for-loop of computeWordDelays, from index i with the running offset
RECURSIVE WordDelayLoop(_, _, _, _, _, _)
WordDelayLoop(ws, staggerMs, long, short, i, cumulative) ==
    IF i > Len(ws) THEN <<>>
    ELSE LET last == SliceLast(ws[i])
             next == cumulative + staggerMs
                       + (IF IncludedInTerminals(last) THEN long
                          ELSE IF last = "," THEN short
                          ELSE 0)
         IN  <<cumulative>> \o WordDelayLoop(ws, staggerMs, long, short, i + 1, next)

\* mutants of computeWordDelays
\* (a) the offset is assigned, not accumulated: cumulative = staggerMs
RECURSIVE WordDelayLoop_noAccumulate(_, _, _)
WordDelayLoop_noAccumulate(ws, staggerMs, i) ==
    IF i > Len(ws) THEN <<>>
    ELSE <<IF i = 1 THEN 0 ELSE staggerMs>> \o WordDelayLoop_noAccumulate(ws, staggerMs, i + 1)

computeWordDelays_noAccumulate(ws, staggerMs, punctDelay) ==
    IF ~punctDelay THEN [i \in 1..Len(ws) |-> IF i = 1 THEN 0 ELSE staggerMs]
    ELSE WordDelayLoop_noAccumulate(ws, staggerMs, 1)

\* (b) the pause is added before the push, so it delays the token that triggered it
RECURSIVE WordDelayLoop_pauseFirst(_, _, _, _)
WordDelayLoop_pauseFirst(ws, staggerMs, i, cumulative) ==
    IF i > Len(ws) THEN <<>>
    ELSE LET last == SliceLast(ws[i])
             own == cumulative
                       + (IF IncludedInTerminals(last) THEN punctPauseLong
                          ELSE IF last = "," THEN punctPauseShort
                          ELSE 0)
         IN  <<own>> \o WordDelayLoop_pauseFirst(ws, staggerMs, i + 1, own + staggerMs)

computeWordDelays_pauseFirst(ws, staggerMs, punctDelay) ==
    IF ~punctDelay THEN [i \in 1..Len(ws) |-> (i - 1) * staggerMs]
    ELSE WordDelayLoop_pauseFirst(ws, staggerMs, 1, 0)

\* (c) the fast path is dropped: the loop always runs, pauses included
computeWordDelays_noFastPath(ws, staggerMs, punctDelay) ==
    WordDelayLoop(ws, staggerMs, punctPauseLong, punctPauseShort, 1, 0)

computeWordDelays(ws, staggerMs, punctDelay) ==
    IF ~punctDelay THEN [i \in 1..Len(ws) |-> (i - 1) * staggerMs]
    ELSE WordDelayLoop(ws, staggerMs, punctPauseLong, punctPauseShort, 1, 0)

\* the for-loop of computeCharDelays: chars[i] itself is tested, not slice(-1)
RECURSIVE CharDelayLoop(_, _, _, _, _, _)
CharDelayLoop(cs, staggerMs, long, short, i, cumulative) ==
    IF i > Len(cs) THEN <<>>
    ELSE LET c == IF Len(cs[i]) = 0 THEN "" ELSE cs[i][1]
             next == cumulative + staggerMs
                       + (IF Len(cs[i]) <= 1 /\ IncludedInTerminals(c) THEN long
                          ELSE IF cs[i] = <<",">> THEN short
                          ELSE 0)
         IN  <<cumulative>> \o CharDelayLoop(cs, staggerMs, long, short, i + 1, next)

computeCharDelays(cs, staggerMs, punctDelay) ==
    IF ~punctDelay THEN [i \in 1..Len(cs) |-> (i - 1) * staggerMs]
    ELSE CharDelayLoop(cs, staggerMs, punctPauseLong, punctPauseShort, 1, 0)

\* an intensity (j - groupStart + 1) / groupSize, kept as the pair of its terms
Ratio(n, d) == [num |-> n, den |-> d]

\* the for-loop of computeCharCrescendo, with a comma closing a group as well
RECURSIVE CrescendoLoop_commaEnds(_, _, _, _)
CrescendoLoop_commaEnds(cs, i, groupStart, intensities) ==
    IF i > Len(cs) THEN intensities
    ELSE LET c == IF Len(cs[i]) = 0 THEN "" ELSE cs[i][1]
         IN  IF (Len(cs[i]) <= 1 /\ (IncludedInTerminals(c) \/ c = ",")) \/ i = Len(cs)
             THEN LET groupSize == i - groupStart + 1
                      filled == [j \in 1..Len(cs) |->
                                    IF groupStart <= j /\ j <= i
                                    THEN Ratio(j - groupStart + 1, groupSize)
                                    ELSE intensities[j]]
                  IN  CrescendoLoop_commaEnds(cs, i + 1, i + 1, filled)
             ELSE CrescendoLoop_commaEnds(cs, i + 1, groupStart, intensities)

computeCharCrescendo_commaEnds(cs) ==
    CrescendoLoop_commaEnds(cs, 1, 1, [j \in 1..Len(cs) |-> Ratio(0, 1)])

\* the for-loop of computeCharCrescendo: at a '.', '!' or '?' or at the last
\* character the group groupStart..i is filled and the next group starts at i + 1
RECURSIVE CrescendoLoop(_, _, _, _)
CrescendoLoop(cs, i, groupStart, intensities) ==
    IF i > Len(cs) THEN intensities
    ELSE LET c == IF Len(cs[i]) = 0 THEN "" ELSE cs[i][1]
         IN  IF (Len(cs[i]) <= 1 /\ IncludedInTerminals(c)) \/ i = Len(cs)
             THEN LET groupSize == i - groupStart + 1
                      filled == [j \in 1..Len(cs) |->
                                    IF groupStart <= j /\ j <= i
                                    THEN Ratio(j - groupStart + 1, groupSize)
                                    ELSE intensities[j]]
                  IN  CrescendoLoop(cs, i + 1, i + 1, filled)
             ELSE CrescendoLoop(cs, i + 1, groupStart, intensities)

\* new Array(chars.length).fill(0), then the loop
computeCharCrescendo(cs) ==
    CrescendoLoop(cs, 1, 1, [j \in 1..Len(cs) |-> Ratio(0, 1)])

\* Math.ceil(n * 0.6)
CeilSixTenths(n) == (6 * n + 9) \div 10

\* mutant of computeSplitDelays: Math.floor in place of Math.ceil
computeSplitDelays_floor(ws, pDelay) ==
    LET splitAt == (6 * Len(ws)) \div 10
        group1 == SubSeq(ws, 1, splitAt)
        group2 == SubSeq(ws, splitAt + 1, Len(ws))
        g1Delays == computeWordDelays(group1, 100, pDelay)
        g2Delays == computeWordDelays(group2, 100, pDelay)
        g1End == IF Len(g1Delays) > 0 THEN g1Delays[Len(g1Delays)] + 100 ELSE 0
    IN  g1Delays \o [i \in 1..Len(g2Delays) |-> g2Delays[i] + g1End + 400]

\* mutant of computeSplitDelays: the second group is not rebased
computeSplitDelays_noRebase(ws, pDelay) ==
    LET splitAt == CeilSixTenths(Len(ws))
        group1 == SubSeq(ws, 1, splitAt)
        group2 == SubSeq(ws, splitAt + 1, Len(ws))
    IN  computeWordDelays(group1, 100, pDelay) \o computeWordDelays(group2, 100, pDelay)

computeSplitDelays(ws, pDelay) ==
    LET splitAt == CeilSixTenths(Len(ws))
        group1 == SubSeq(ws, 1, splitAt)
        group2 == SubSeq(ws, splitAt + 1, Len(ws))
        g1Delays == computeWordDelays(group1, 100, pDelay)
        g2Delays == computeWordDelays(group2, 100, pDelay)
        g1End == IF Len(g1Delays) > 0 THEN g1Delays[Len(g1Delays)] + 100 ELSE 0
    IN  g1Delays \o [i \in 1..Len(g2Delays) |-> g2Delays[i] + g1End + 400]

-----------------------------------------------------------------------------
(* Typewriter: the typing effect and its chain of timeouts                 *)

\* clearTimeout(id)
clearTimeout(pending, id) == {tm \in pending : [cyc |-> tm.cyc, idx |-> tm.idx] # id}

\* if (timeoutRef.current) { clearTimeout(timeoutRef.current); timeoutRef.current = null }
\* on the pair [timers, timeoutRef]
ClearPending(st) ==
    IF st.timeoutRef # NoTimer
    THEN [timers |-> clearTimeout(st.timers, st.timeoutRef), timeoutRef |-> NoTimer]
    ELSE st

\* the delay typeNext waits after the character it has just typed
TypeDelay(justTyped, punct) ==
    80 + (IF punct
          THEN (IF IncludedInTerminals(justTyped) THEN punctPauseLong
                ELSE IF justTyped = "," THEN punctPauseShort
                ELSE 0)
          ELSE 0)

\* mutant: the timeout typeNext schedules is not stored in timeoutRef.current
typeNext_refNotStored(st, c, t) ==
    LET cl == st.closures[c]
        idx == cl.index + 1
    IN  IF cl.index >= Len(cl.text) THEN st
        ELSE IF idx >= Len(cl.text)
        THEN [st EXCEPT !.closures[c].index = idx, !.visibleChars = idx]
        ELSE [st EXCEPT !.closures[c].index = idx, !.visibleChars = idx,
                        !.timers = @ \cup {[cyc |-> c, idx |-> idx,
                                            at |-> t + TypeDelay(cl.text[idx], cl.punct)]}]

\* mutant: the pause is taken before the punctuation mark, not after it
typeNext_pauseBefore(st, c, t) ==
    LET cl == st.closures[c]
        idx == cl.index + 1
    IN  IF cl.index >= Len(cl.text) THEN st
        ELSE IF idx >= Len(cl.text)
        THEN [st EXCEPT !.closures[c].index = idx, !.visibleChars = idx]
        ELSE [st EXCEPT !.closures[c].index = idx, !.visibleChars = idx,
                        !.timers = @ \cup {[cyc |-> c, idx |-> idx,
                                            at |-> t + TypeDelay(cl.text[idx + 1], cl.punct)]},
                        !.timeoutRef = [cyc |-> c, idx |-> idx]]

\* typeNext of the effect run c, called at time t, on
\* [visibleChars, timeoutRef, timers, closures]
typeNext(st, c, t) ==
    LET cl == st.closures[c]
        idx == cl.index + 1
    IN  IF cl.index >= Len(cl.text) THEN st
        ELSE IF idx >= Len(cl.text)
        THEN [st EXCEPT !.closures[c].index = idx, !.visibleChars = idx]
        ELSE [st EXCEPT !.closures[c].index = idx, !.visibleChars = idx,
                        !.timers = @ \cup {[cyc |-> c, idx |-> idx,
                                            at |-> t + TypeDelay(cl.text[idx], cl.punct)]},
                        !.timeoutRef = [cyc |-> c, idx |-> idx]]

TwTexts ==
    { <<>>, <<"H", "i">>, <<"a", ".", "b">>, <<"a", ",", "b", "!">> }

\* mount: the first render is committed, its effects have not run yet
InitTypewriter ==
    /\ DelaysIdle
    /\ SeqIdle
    /\ ShowcaseIdle
    /\ ShellIdle
    /\ twText \in TwTexts
    /\ twIsPlaying \in BOOLEAN
    /\ twPunctuationDelay \in BOOLEAN
    /\ twNow = 0
    /\ visibleChars = 0
    /\ timeoutRef = NoTimer
    /\ timers = {}
    /\ closures = <<>>
    /\ effectPending = TRUE
    /\ lastRun = [cleanup |-> FALSE, cyc |-> 0]
    /\ twSignals = 0
    /\ firedStale = FALSE
    /\ cancelledDue = 0 - 1
    /\ shownAt = <<>>
    /\ cycleStart = 0

\* a closure is live while the last effect run is its own or a pending timeout
\* would call its typeNext
Live(cls, pending, current) ==
    [c \in {d \in DOMAIN cls : d = current \/ \E tm \in pending : tm.cyc = d} |-> cls[c]]

\* The typing effect of the committed render: the cleanup the previous run
\* returned (if it returned one), then the effect body.
RunTypingEffect ==
    /\ effectPending
    /\ LET afterCleanup ==
               IF lastRun.cleanup
               THEN ClearPending([timers |-> timers, timeoutRef |-> timeoutRef])
               ELSE [timers |-> timers, timeoutRef |-> timeoutRef]
           cleared == ClearPending(afterCleanup)
           gone == timers \ cleared.timers
       IN  /\ cancelledDue' = IF gone = {} THEN 0 - 1 ELSE (CHOOSE tm \in gone : TRUE).at
           /\ IF ~twIsPlaying
              THEN /\ visibleChars' = 0
                   /\ timers' = cleared.timers
                   /\ timeoutRef' = cleared.timeoutRef
                   /\ closures' = Live(closures, cleared.timers, 0)
                   /\ lastRun' = [cleanup |-> FALSE, cyc |-> 0]
              ELSE LET kept == Live(closures, cleared.timers, 0)
                       c == CHOOSE n \in 1..(Cardinality(DOMAIN kept) + 1) : n \notin DOMAIN kept
                   IN  /\ visibleChars' = 0
                       /\ closures' = [d \in DOMAIN kept \cup {c} |->
                                          IF d = c
                                          THEN [text |-> twText, punct |-> twPunctuationDelay,
                                                index |-> 0]
                                          ELSE kept[d]]
                       /\ timers' = cleared.timers \cup {[cyc |-> c, idx |-> 0, at |-> twNow + 80]}
                       /\ timeoutRef' = [cyc |-> c, idx |-> 0]
                       /\ lastRun' = [cleanup |-> TRUE, cyc |-> c]
    /\ effectPending' = FALSE
    /\ shownAt' = <<>>
    /\ cycleStart' = twNow
    /\ UNCHANGED <<twText, twIsPlaying, twPunctuationDelay, twNow, twSignals, firedStale>>
    /\ UNCHANGED <<delayVars, seqVars, scVars, shVars>>

\* a cycle is cancelled once a later run of the effect has cleaned up after it
CycleCancelled(c) == ~lastRun.cleanup \/ c # lastRun.cyc

\* a due timeout fires: the host removes it and calls typeNext of its closure
TimerFires ==
    \E tm \in timers :
        /\ tm.at <= twNow
        /\ LET st == typeNext([visibleChars |-> visibleChars, timeoutRef |-> timeoutRef,
                               timers |-> timers \ {tm}, closures |-> closures],
                              tm.cyc, twNow)
           IN  /\ visibleChars' = st.visibleChars
               /\ timeoutRef' = st.timeoutRef
               /\ timers' = st.timers
               /\ closures' = Live(st.closures, st.timers, lastRun.cyc)
               /\ shownAt' = IF ~CycleCancelled(tm.cyc) /\ st.visibleChars > Len(shownAt)
                              THEN Append(shownAt, twNow - cycleStart)
                              ELSE shownAt
        /\ firedStale' = (firedStale \/ CycleCancelled(tm.cyc))
        /\ UNCHANGED <<twText, twIsPlaying, twPunctuationDelay, twNow, effectPending,
                       lastRun, twSignals, cancelledDue, cycleStart>>
        /\ UNCHANGED <<delayVars, seqVars, scVars, shVars>>

\* A render with changed props is committed.  React runs the effects of the
\* previous commit before it renders again, hence ~effectPending.
TwSetPlaying(b) ==
    /\ ~effectPending
    /\ b # twIsPlaying
    /\ twSignals < MaxTwSignals
    /\ twIsPlaying' = b
    /\ effectPending' = TRUE
    /\ twSignals' = twSignals + 1
    /\ UNCHANGED <<twText, twPunctuationDelay, twNow, visibleChars, timeoutRef, timers,
                   closures, lastRun, firedStale, cancelledDue, shownAt, cycleStart>>
    /\ UNCHANGED <<delayVars, seqVars, scVars, shVars>>

TwSetText(newText) ==
    /\ ~effectPending
    /\ newText # twText
    /\ twSignals < MaxTwSignals
    /\ twText' = newText
    /\ effectPending' = TRUE
    /\ twSignals' = twSignals + 1
    /\ UNCHANGED <<twIsPlaying, twPunctuationDelay, twNow, visibleChars, timeoutRef, timers,
                   closures, lastRun, firedStale, cancelledDue, shownAt, cycleStart>>
    /\ UNCHANGED <<delayVars, seqVars, scVars, shVars>>

TwSetPunctuationDelay(b) ==
    /\ ~effectPending
    /\ b # twPunctuationDelay
    /\ twSignals < MaxTwSignals
    /\ twPunctuationDelay' = b
    /\ effectPending' = TRUE
    /\ twSignals' = twSignals + 1
    /\ UNCHANGED <<twText, twIsPlaying, twNow, visibleChars, timeoutRef, timers,
                   closures, lastRun, firedStale, cancelledDue, shownAt, cycleStart>>
    /\ UNCHANGED <<delayVars, seqVars, scVars, shVars>>

\* the timer clock advances, by at most TwTickMs and never past a due timeout
TwAdvance ==
    /\ \A tm \in timers : tm.at > twNow
    /\ LET dues == {tm.at : tm \in timers} \cup {twNow + TwTickMs}
           next == CHOOSE x \in dues : \A y \in dues : x <= y
       IN  /\ next <= MaxTwTime
           /\ twNow' = next
    /\ UNCHANGED <<twText, twIsPlaying, twPunctuationDelay, visibleChars, timeoutRef, timers,
                   closures, effectPending, lastRun, twSignals, firedStale, cancelledDue,
                   shownAt, cycleStart>>
    /\ UNCHANGED <<delayVars, seqVars, scVars, shVars>>

NextTypewriter ==
    \/ RunTypingEffect
    \/ TimerFires
    \/ \E b \in BOOLEAN : TwSetPlaying(b)
    \/ \E newText \in TwTexts : TwSetText(newText)
    \/ \E b \in BOOLEAN : TwSetPunctuationDelay(b)
    \/ TwAdvance

SpecTypewriter == InitTypewriter /\ [][NextTypewriter]_vars

\* C7: in the Typewriter, whatever the sequence of isPlaying toggles, text changes
\* and punctuationDelay changes, no timer of a cancelled cycle ever fires, at most
\* one typing timer is pending, and once the effect has run for isPlaying = false
\* no timer is pending and the visible character count is 0 until the next play.
C7_NoStaleTimer ==
    /\ ~firedStale
    /\ Cardinality(timers) <= 1
    /\ \A tm \in timers : ~CycleCancelled(tm.cyc)
    /\ ~lastRun.cleanup => (timers = {} /\ visibleChars = 0)

\* C7 witness: a stop has taken effect while a timer was pending, the clock has
\* passed the instant that timer was due, and nothing is visible
C7_Witness ==
    /\ ~twIsPlaying /\ ~effectPending
    /\ cancelledDue > 80
    /\ twNow > cancelledDue
    /\ visibleChars = 0
    /\ timers = {}

\* {text.slice(0, visibleChars)}
Rendered ==
    SubSeq(twText, 1, IF visibleChars < Len(twText) THEN visibleChars ELSE Len(twText))

\* playing, and the typing effect of the committed props has run
TwPlayingCycle == twIsPlaying /\ ~effectPending

\* a step in which a timeout fired
TwTimerFired == effectPending' = effectPending /\ timers' # timers

C23_Typing ==
    TwPlayingCycle =>
        /\ visibleChars <= Len(twText)
        /\ visibleChars = Len(twText) <=> timers = {}
        /\ Len(Rendered) = visibleChars
        /\ \A i \in 1..Len(Rendered) : Rendered[i] = twText[i]

C23_TypingStep ==
    /\ (effectPending /\ TwPlayingCycle') => visibleChars' = 0
    /\ (TwPlayingCycle /\ TwPlayingCycle' /\ TwTimerFired) => visibleChars' = visibleChars + 1

\* C23: while the Typewriter is playing with unchanged text and punctuationDelay,
\* the visible character count starts at 0, increases by exactly 1 per timer
\* firing, never exceeds text.length and reaches text.length (typing is complete
\* exactly when no timer is pending); the rendered string is a prefix of text.
C23_TypewriterProgress == []C23_Typing /\ [][C23_TypingStep]_vars

\* C27: in a play cycle started at time 0, character i becomes visible at exactly
\* 80 + d[i] with d = computeCharDelays(chars, 80, punctuationDelay), and the
\* pending timer is due at the time the plan gives the next character; so a pause
\* after . ! ? or a comma delays only the characters that follow it.
C27_RevealTimesRefinePlan ==
    TwPlayingCycle =>
        LET d == computeCharDelays(splitChars(twText), 80, twPunctuationDelay)
        IN  /\ Len(shownAt) = visibleChars
            /\ \A i \in 1..Len(shownAt) : shownAt[i] = 80 + d[i]
            /\ visibleChars < Len(twText) =>
                  \A tm \in timers : tm.at = cycleStart + 80 + d[visibleChars + 1]
            /\ (twText = <<"a", ".", "b">> /\ twPunctuationDelay /\ visibleChars = 3) =>
                  shownAt = <<80, 160, 540>>

\* C27 witness: "a,b!" was typed to its end with pausing on, in a cycle that
\* started after time 0: the comma came at 160 and the b 230 ms after it
C27_Witness ==
    /\ TwPlayingCycle
    /\ cycleStart > 0
    /\ twText = <<"a", ",", "b", "!">>
    /\ twPunctuationDelay
    /\ visibleChars = 4
    /\ shownAt = <<80, 160, 390, 470>>

-----------------------------------------------------------------------------
(* The animation substrate as the word components use it: a shared value   *)
(* is a plain value plus at most one running animation.                    *)

NoAnim == [start |-> 0 - 1, delay |-> 0, stages |-> <<>>]

\* useSharedValue(v)
useSharedValue(v) == [val |-> v, anim |-> NoAnim]

withTiming(toValue, duration) == [to |-> toValue, dur |-> duration]

\* withDelay(delayMs, withSequence(stages...)); a single withTiming is one stage
withDelay(delayMs, stages) == [delay |-> delayMs, stages |-> stages]

At(v) == [from |-> v, to |-> v, num |-> 0, den |-> 1]

\* the value after e > 0 ms of the stages, starting from `from`: a settled value
\* At(v), or the eased point num/den of the way between two different values
RECURSIVE StageSample(_, _, _, _)
StageSample(from, stages, k, e) ==
    IF k > Len(stages) THEN At(from)
    ELSE IF e >= stages[k].dur THEN StageSample(stages[k].to, stages, k + 1, e - stages[k].dur)
    ELSE IF stages[k].to = from THEN At(from)
    ELSE [from |-> from, to |-> stages[k].to, num |-> e, den |-> stages[k].dur]

\* what the animated style reads from a shared value at time t
Sample(sv, t) ==
    IF sv.anim = NoAnim THEN At(sv.val)
    ELSE LET e == t - sv.anim.start - sv.anim.delay
         IN  IF e <= 0 THEN At(sv.val) ELSE StageSample(sv.val, sv.anim.stages, 1, e)

\* sv.value = v with a plain number: the running animation is cancelled, v is set
Assign(svs, name, v) == [svs EXCEPT ![name] = [val |-> v, anim |-> NoAnim]]

\* sv.value = withDelay(...): the animation replaces the running one and starts
\* at t from the current value (every effect assigns the plain value first, so the
\* current value is that plain value)
Start(svs, name, a, t) ==
    [svs EXCEPT ![name] =
        [val |-> (LET c == Sample(@, t) IN IF c.num = 0 THEN c.from ELSE c.to),
         anim |-> [start |-> t, delay |-> a.delay, stages |-> a.stages]]]

-----------------------------------------------------------------------------
(* The word components: their shared values and their useEffect            *)

LineSlideWord_values ==
    [translateX |-> useSharedValue(200), opacity |-> useSharedValue(0)]

\* mutant: the else branch of the effect is missing, a stop resets nothing
LineSlideWord_noStopReset(svs, playing, delay, t) ==
    IF playing
    THEN LET r1 == Assign(svs, "translateX", 200)
             r2 == Assign(r1, "opacity", 0)
             a1 == Start(r2, "translateX", withDelay(delay, <<withTiming(0, 800)>>), t)
         IN  Start(a1, "opacity", withDelay(delay, <<withTiming(1, 600)>>), t)
    ELSE svs

LineSlideWord(svs, playing, delay, t) ==
    IF playing
    THEN LET r1 == Assign(svs, "translateX", 200)
             r2 == Assign(r1, "opacity", 0)
             a1 == Start(r2, "translateX", withDelay(delay, <<withTiming(0, 800)>>), t)
         IN  Start(a1, "opacity", withDelay(delay, <<withTiming(1, 600)>>), t)
    ELSE Assign(Assign(svs, "translateX", 200), "opacity", 0)

\* scale is kept in hundredths: 0.85 is 85, 1 is 100
ScaleFadeWord_values ==
    [scale |-> useSharedValue(85), opacity |-> useSharedValue(0)]

ScaleFadeWord(svs, playing, delay, t) ==
    IF playing
    THEN LET r1 == Assign(svs, "scale", 85)
             r2 == Assign(r1, "opacity", 0)
             a1 == Start(r2, "scale", withDelay(delay, <<withTiming(100, 500)>>), t)
         IN  Start(a1, "opacity", withDelay(delay, <<withTiming(1, 400)>>), t)
    ELSE Assign(Assign(svs, "scale", 85), "opacity", 0)

SplitTimingWord_values ==
    [translateY |-> useSharedValue(20), opacity |-> useSharedValue(0)]

SplitTimingWord(svs, playing, delay, t) ==
    IF playing
    THEN LET r1 == Assign(svs, "translateY", 20)
             r2 == Assign(r1, "opacity", 0)
             a1 == Start(r2, "translateY", withDelay(delay, <<withTiming(0, 450)>>), t)
         IN  Start(a1, "opacity", withDelay(delay, <<withTiming(1, 350)>>), t)
    ELSE Assign(Assign(svs, "translateY", 20), "opacity", 0)

RapidWord_values ==
    [translateX |-> useSharedValue(30), opacity |-> useSharedValue(0)]

\* mutant: the animations are assigned without withDelay
RapidWord_noDelay(svs, playing, delay, t) ==
    IF playing
    THEN LET r1 == Assign(svs, "translateX", 30)
             r2 == Assign(r1, "opacity", 0)
             a1 == Start(r2, "translateX", withDelay(0, <<withTiming(0, 250)>>), t)
         IN  Start(a1, "opacity", withDelay(0, <<withTiming(1, 150)>>), t)
    ELSE Assign(Assign(svs, "translateX", 30), "opacity", 0)

RapidWord(svs, playing, delay, t) ==
    IF playing
    THEN LET r1 == Assign(svs, "translateX", 30)
             r2 == Assign(r1, "opacity", 0)
             a1 == Start(r2, "translateX", withDelay(delay, <<withTiming(0, 250)>>), t)
         IN  Start(a1, "opacity", withDelay(delay, <<withTiming(1, 150)>>), t)
    ELSE Assign(Assign(svs, "translateX", 30), "opacity", 0)

SlamWord_values ==
    [translateX |-> useSharedValue(60), opacity |-> useSharedValue(0)]

\* mutant: the else branch resets translateX only
SlamWord_partialReset(svs, playing, delay, t) ==
    IF playing
    THEN LET r1 == Assign(svs, "translateX", 60)
             r2 == Assign(r1, "opacity", 0)
             a1 == Start(r2, "translateX",
                         withDelay(delay, <<withTiming(0, 180), withTiming(5, 80),
                                            withTiming(0, 150)>>), t)
         IN  Start(a1, "opacity", withDelay(delay, <<withTiming(1, 100)>>), t)
    ELSE Assign(svs, "translateX", 60)

\* mutant: the slam goes straight to 0, without the bounce back to 5
SlamWord_noBounce(svs, playing, delay, t) ==
    IF playing
    THEN LET r1 == Assign(svs, "translateX", 60)
             r2 == Assign(r1, "opacity", 0)
             a1 == Start(r2, "translateX", withDelay(delay, <<withTiming(0, 180)>>), t)
         IN  Start(a1, "opacity", withDelay(delay, <<withTiming(1, 100)>>), t)
    ELSE Assign(Assign(svs, "translateX", 60), "opacity", 0)

SlamWord(svs, playing, delay, t) ==
    IF playing
    THEN LET r1 == Assign(svs, "translateX", 60)
             r2 == Assign(r1, "opacity", 0)
             a1 == Start(r2, "translateX",
                         withDelay(delay, <<withTiming(0, 180), withTiming(5, 80),
                                            withTiming(0, 150)>>), t)
         IN  Start(a1, "opacity", withDelay(delay, <<withTiming(1, 100)>>), t)
    ELSE Assign(Assign(svs, "translateX", 60), "opacity", 0)

SkewPopWord_values ==
    [opacity |-> useSharedValue(0), skewX |-> useSharedValue(0),
     colorProgress |-> useSharedValue(0)]

SkewPopWord(svs, playing, delay, isEmphasis, t) ==
    IF playing
    THEN LET r1 == Assign(svs, "opacity", 0)
             r2 == Assign(r1, "skewX", 0)
             r3 == Assign(r2, "colorProgress", 0)
             a1 == Start(r3, "opacity", withDelay(delay, <<withTiming(1, 300)>>), t)
         IN  IF isEmphasis
             THEN LET a2 == Start(a1, "skewX",
                                  withDelay(600, <<withTiming(0 - 12, 200),
                                                   withTiming(0, 400)>>), t)
                  IN  Start(a2, "colorProgress", withDelay(600, <<withTiming(1, 400)>>), t)
             ELSE a1
    ELSE Assign(Assign(Assign(svs, "opacity", 0), "skewX", 0), "colorProgress", 0)

\* scale of a SoftFadeChar is kept as a Ratio: 1, and peakScale = 1 + intensity * 0.4
One == Ratio(1, 1)

peakScale(intensity) == Ratio(5 * intensity.den + 2 * intensity.num, 5 * intensity.den)

SoftFadeChar_values ==
    [opacity |-> useSharedValue(0), scale |-> useSharedValue(One)]

\* mutant: the scale stays at its peak
SoftFadeChar_noSettle(svs, playing, delay, intensity, t) ==
    IF playing
    THEN LET r1 == Assign(svs, "opacity", 0)
             r2 == Assign(r1, "scale", One)
             a1 == Start(r2, "opacity", withDelay(delay, <<withTiming(1, 250)>>), t)
         IN  Start(a1, "scale",
                   withDelay(delay, <<withTiming(peakScale(intensity), 250)>>), t)
    ELSE Assign(Assign(svs, "opacity", 0), "scale", One)

SoftFadeChar(svs, playing, delay, intensity, t) ==
    IF playing
    THEN LET r1 == Assign(svs, "opacity", 0)
             r2 == Assign(r1, "scale", One)
             a1 == Start(r2, "opacity", withDelay(delay, <<withTiming(1, 250)>>), t)
         IN  Start(a1, "scale",
                   withDelay(delay, <<withTiming(peakScale(intensity), 250),
                                      withTiming(One, 300)>>), t)
    ELSE Assign(Assign(svs, "opacity", 0), "scale", One)

ShimmerWord_values ==
    [translateX |-> useSharedValue(50), opacity |-> useSharedValue(0)]

ShimmerWord(svs, playing, delay, t) ==
    IF playing
    THEN LET r1 == Assign(svs, "translateX", 50)
             r2 == Assign(r1, "opacity", 0)
             a1 == Start(r2, "translateX", withDelay(delay, <<withTiming(0, 500)>>), t)
         IN  Start(a1, "opacity", withDelay(delay, <<withTiming(1, 400)>>), t)
    ELSE Assign(Assign(svs, "translateX", 50), "opacity", 0)

ShimmerChar_values ==
    [translateX |-> useSharedValue(20), opacity |-> useSharedValue(0)]

ShimmerChar(svs, playing, delay, t) ==
    IF playing
    THEN LET r1 == Assign(svs, "translateX", 20)
             r2 == Assign(r1, "opacity", 0)
             a1 == Start(r2, "translateX", withDelay(delay, <<withTiming(0, 400)>>), t)
         IN  Start(a1, "opacity", withDelay(delay, <<withTiming(1, 300)>>), t)
    ELSE Assign(Assign(svs, "translateX", 20), "opacity", 0)

-----------------------------------------------------------------------------
(* The shimmer wave of WordShimmer and LetterShimmer.  Positions are kept  *)
(* in tenths (-0.5 is -5); a sampled position is a fraction num / den of   *)
(* tenths, with den the square of the sweep duration while a sweep of      *)
(* positive duration is attached and 1 otherwise.                          *)

\* useSharedValue(-0.5)
shimmerPos_value == [val |-> 0 - 5, anim |-> NoSweep]

\* mutant: the sweep takes 450 ms whatever the number of words
withRepeat_fixedSweep(wordCount, t) ==
    [start |-> t, hi |-> 10 * (wordCount + 1), sweep |-> 450]

\* withRepeat(withSequence(withTiming(words.length + 1, {duration: sweepDuration}),
\*                         withTiming(-0.5, {duration: sweepDuration})), -1)
\* with sweepDuration = words.length * 450
withRepeat(wordCount, t) ==
    [start |-> t, hi |-> 10 * (wordCount + 1), sweep |-> wordCount * 450]

\* mutant: the else branch of the effect is missing, the sweep keeps running
shimmerEffect_cancelOnly(sv, playing, wordCount, t) ==
    IF playing
    THEN [val |-> 0 - 5, anim |-> withRepeat(wordCount, t)]
    ELSE sv

\* the composer's useEffect on [isPlaying, words.length]
shimmerEffect(sv, playing, wordCount, t) ==
    IF playing
    THEN [val |-> 0 - 5, anim |-> withRepeat(wordCount, t)]
    ELSE [val |-> 0 - 5, anim |-> NoSweep]

\* withTiming without an easing option uses Easing.inOut(Easing.quad):
\* 2 p^2 below the half, 1 - 2 (1 - p)^2 above; p = e / d, result over d * d
EaseInOutQuad(e, d) ==
    IF 2 * e < d THEN 2 * e * e ELSE d * d - 2 * (d - e) * (d - e)

\* the positions the animated styles can read from shimmerPos at time t.  With
\* a sweep of 0 ms (no words) each stage ends on the frame it starts on, so
\* the value alternates between the two targets frame by frame.
ShimmerSamples(sv, t) ==
    IF sv.anim = NoSweep THEN {[num |-> sv.val, den |-> 1]}
    ELSE LET S == sv.anim.sweep
             e == t - sv.anim.start
         IN  IF S = 0
             THEN IF e <= 0 THEN {[num |-> sv.val, den |-> 1]}
                  ELSE {[num |-> sv.val, den |-> 1], [num |-> sv.anim.hi, den |-> 1]}
             ELSE IF e <= 0 THEN {[num |-> sv.val * S * S, den |-> S * S]}
             ELSE LET ph == e % (2 * S)
                      span == sv.anim.hi - sv.val
                  IN  IF ph <= S
                      THEN {[num |-> sv.val * S * S + span * EaseInOutQuad(ph, S),
                             den |-> S * S]}
                      ELSE {[num |-> sv.anim.hi * S * S - span * EaseInOutQuad(ph - S, S),
                             den |-> S * S]}

Abs(x) == IF x < 0 THEN 0 - x ELSE x

Max(a, b) == IF a >= b THEN a ELSE b

\* ShimmerWord: dist = Math.abs(shimmerPos.value - index), the position being
\* pos.num / pos.den tenths; the distance is DistWord / (10 * pos.den)
DistWord(pos, index) == Abs(pos.num - 10 * index * pos.den)

\* mutant: the intensity is not clamped at 0
intensityWord_noClamp(pos, index) ==
    [num |-> 25 * pos.den - 2 * DistWord(pos, index), den |-> 25 * pos.den]

\* ShimmerWord: Math.max(0, 1 - dist * 0.8), as a fraction num / den
intensityWord(pos, index) ==
    [num |-> Max(0, 25 * pos.den - 2 * DistWord(pos, index)), den |-> 25 * pos.den]

\* ShimmerChar: charPos = totalChars > 0 ? index / (totalChars / 4) : 0 and
\* dist = Math.abs(shimmerPos.value - charPos); the distance is
\* DistChar / (10 * pos.den * totalChars) for totalChars > 0
DistChar(pos, index, totalChars) ==
    IF totalChars > 0 THEN Abs(pos.num * totalChars - 40 * index * pos.den)
    ELSE Abs(pos.num)

\* ShimmerChar: Math.max(0, 1 - dist * 0.6), as a fraction num / den
intensityChar(pos, index, totalChars) ==
    LET T == IF totalChars > 0 THEN totalChars ELSE 1
    IN  [num |-> Max(0, 50 * pos.den * T - 3 * DistChar(pos, index, totalChars)),
         den |-> 50 * pos.den * T]

-----------------------------------------------------------------------------
(* The composers: LineSlide, ScaleFade, SplitTiming, RapidFire, SlamIn,    *)
(* SkewPop.  Each renders one word component per word, keyed by index and  *)
(* word, with delay = delays[i].  SoftFade and LetterShimmer render one    *)
(* component per character.                                                *)

Presets == {"LineSlide", "ScaleFade", "SplitTiming", "RapidFire", "SlamIn", "SkewPop"}

\* the two presets with a shimmer wave
ShimmerPresets == {"WordShimmer", "LetterShimmer"}

\* the presets whose tokens are characters
CharPresets == {"LetterShimmer", "SoftFade"}

\* the tokens the composer maps to components: chars in LetterShimmer and SoftFade,
\* words elsewhere
Tokens(p, t) == IF p \in CharPresets THEN splitChars(t) ELSE splitWords(t)

\* useMemo(() => compute...Delays(words, stagger, punctuationDelay))
Delays(p, ws, punct) ==
    CASE p = "LineSlide" -> computeWordDelays(ws, 30, punct)
      [] p = "ScaleFade" -> computeWordDelays(ws, 100, punct)
      [] p = "SplitTiming" -> computeSplitDelays(ws, punct)
      [] p = "RapidFire" -> computeWordDelays(ws, 110, punct)
      [] p = "SlamIn" -> computeWordDelays(ws, 100, punct)
      [] p = "SkewPop" -> computeWordDelays(ws, 80, punct)
      [] p = "WordShimmer" -> computeWordDelays(ws, 120, punct)
      [] p = "LetterShimmer" -> computeCharDelays(ws, 25, punct)
      [] p = "SoftFade" -> computeCharDelays(ws, 25, punct)

\* the intensity prop: SoftFade passes intensities[i], no other preset has it
Intensities(p, ws) ==
    IF p = "SoftFade" THEN computeCharCrescendo(ws) ELSE [i \in 1..Len(ws) |-> Ratio(0, 1)]

\* two intensities give the same peakScale
SamePeak(a, b) == a.num * b.den = b.num * a.den

\* the default of the punctuationDelay prop
DefaultPunctuationDelay(p) == p \notin {"RapidFire", "SlamIn"}

\* mutant: the index is the constant 2
emphasisIndex_noMin(ws) == 2

\* Math.min(2, words.length - 1)
emphasisIndex(ws) == IF Len(ws) - 1 < 2 THEN Len(ws) - 1 ELSE 2

\* isEmphasis={i === emphasisIndex} with the 1-based i of the model; only SkewPop
\* passes isEmphasis
IsEmphasis(p, ws, i) ==
    p = "SkewPop" /\ i - 1 = emphasisIndex(ws)

\* the shared values of a freshly mounted word component
MountValues(p) ==
    CASE p = "LineSlide" -> LineSlideWord_values
      [] p = "ScaleFade" -> ScaleFadeWord_values
      [] p = "SplitTiming" -> SplitTimingWord_values
      [] p = "RapidFire" -> RapidWord_values
      [] p = "SlamIn" -> SlamWord_values
      [] p = "SkewPop" -> SkewPopWord_values
      [] p = "WordShimmer" -> ShimmerWord_values
      [] p = "LetterShimmer" -> ShimmerChar_values
      [] p = "SoftFade" -> SoftFadeChar_values

\* one run of the word component's useEffect
WordEffect(p, svs, playing, delay, isEmphasis, intensity, t) ==
    CASE p = "LineSlide" -> LineSlideWord(svs, playing, delay, t)
      [] p = "ScaleFade" -> ScaleFadeWord(svs, playing, delay, t)
      [] p = "SplitTiming" -> SplitTimingWord(svs, playing, delay, t)
      [] p = "RapidFire" -> RapidWord(svs, playing, delay, t)
      [] p = "SlamIn" -> SlamWord(svs, playing, delay, t)
      [] p = "SkewPop" -> SkewPopWord(svs, playing, delay, isEmphasis, t)
      [] p = "WordShimmer" -> ShimmerWord(svs, playing, delay, t)
      [] p = "LetterShimmer" -> ShimmerChar(svs, playing, delay, t)
      [] p = "SoftFade" -> SoftFadeChar(svs, playing, delay, intensity, t)

\* mutant: delay is not a dependency of the word effect
Render_delayNotDep(p, old, oldPlaying, newText, newPlaying, newPunct, t) ==
    LET ws == Tokens(p, newText)
        ds == Delays(p, ws, newPunct)
        ints == Intensities(p, ws)
    IN  [i \in 1..Len(ws) |->
            LET kept == i <= Len(old) /\ old[i].word = ws[i]
                em == IsEmphasis(p, ws, i)
                svs == IF kept THEN old[i].svs ELSE MountValues(p)
                rerun == \/ ~kept
                         \/ newPlaying # oldPlaying
                         \/ old[i].isEmphasis # em
                         \/ ~SamePeak(old[i].intensity, ints[i])
            IN  [word |-> ws[i], delay |-> ds[i], isEmphasis |-> em, intensity |-> ints[i],
                 svs |-> IF rerun
                         THEN WordEffect(p, svs, newPlaying, ds[i], em, ints[i], t)
                         ELSE svs]]

\* A render of the composer with new props followed by the effects of the commit.
\* A word component whose key `${i}-${word}` is unchanged keeps its shared values
\* and re-runs its effect only if a dependency (isPlaying, delay, isEmphasis,
\* peakScale) changed; any other word component is mounted fresh and runs its effect.
Render(p, old, oldPlaying, newText, newPlaying, newPunct, t) ==
    LET ws == Tokens(p, newText)
        ds == Delays(p, ws, newPunct)
        ints == Intensities(p, ws)
    IN  [i \in 1..Len(ws) |->
            LET kept == i <= Len(old) /\ old[i].word = ws[i]
                em == IsEmphasis(p, ws, i)
                svs == IF kept THEN old[i].svs ELSE MountValues(p)
                rerun == \/ ~kept
                         \/ newPlaying # oldPlaying
                         \/ old[i].delay # ds[i]
                         \/ old[i].isEmphasis # em
                         \/ ~SamePeak(old[i].intensity, ints[i])
            IN  [word |-> ws[i], delay |-> ds[i], isEmphasis |-> em, intensity |-> ints[i],
                 svs |-> IF rerun
                         THEN WordEffect(p, svs, newPlaying, ds[i], em, ints[i], t)
                         ELSE svs]]

\* The composer's own effect in the same commit: the shimmer presets re-run
\* shimmerEffect at mount and when isPlaying or words.length changed; the other
\* presets have no shimmerPos.
RenderShimmer(p, sv, mount, oldPlaying, oldText, newPlaying, newText, t) ==
    IF p \notin ShimmerPresets THEN sv
    ELSE IF mount \/ newPlaying # oldPlaying
                 \/ Len(splitWords(newText)) # Len(splitWords(oldText))
         THEN shimmerEffect(sv, newPlaying, Len(splitWords(newText)), t)
         ELSE sv

-----------------------------------------------------------------------------
(* Timeline state of a word component, read off its shared values          *)

TrackNames(tok) == DOMAIN tok.svs

Scheduled(sv) == sv.anim # NoAnim

RECURSIVE TotalDuration(_)
TotalDuration(stages) ==
    IF Len(stages) = 0 THEN 0 ELSE stages[1].dur + TotalDuration(Tail(stages))

Begun(sv, t) == Scheduled(sv) /\ t - sv.anim.start - sv.anim.delay > 0

Finished(sv, t) ==
    Scheduled(sv) /\ t - sv.anim.start - sv.anim.delay >= TotalDuration(sv.anim.stages)

TimelineState(tok, t) ==
    IF \A n \in TrackNames(tok) : ~Scheduled(tok.svs[n]) THEN "Idle"
    ELSE IF \A n \in TrackNames(tok) : ~Begun(tok.svs[n], t) THEN "Pending"
    ELSE IF \A n \in TrackNames(tok) : Scheduled(tok.svs[n]) => Finished(tok.svs[n], t)
         THEN "Settled"
    ELSE "Animating"

\* the instant the word's first track is scheduled to leave its rest value
\* (0 - 1 for a word with nothing scheduled)
ScheduledStart(tok) ==
    LET starts == {tok.svs[n].anim.start + tok.svs[n].anim.delay :
                      n \in {m \in TrackNames(tok) : Scheduled(tok.svs[m])}}
    IN  IF starts = {} THEN 0 - 1
        ELSE CHOOSE x \in starts : \A y \in starts : x <= y

-----------------------------------------------------------------------------
(* The mounted preset: props change, the clock advances                    *)

TextPool ==
    { <<>>,
      JoinWith(<<Str_Hi, Str_there>>, " "),
      JoinWith(<<Str_Stop, Str_Now>>, " "),
      JoinWith(<<Str_Hi, Str_there, Str_Now>>, " "),
      JoinWith(<<Str_Stop, Str_Stop, Str_Hi, Str_eh>>, " ") }

\* texts handed to the shimmer presets and to SoftFade: no word, one word, blanks
\* only, two words
ShimmerTextPool ==
    { <<>>,
      Str_Now,
      <<" ", " ">>,
      JoinWith(<<Str_Hi, Str_Now>>, " "),
      JoinWith(<<Str_Stop, Str_Now>>, " ") }

TextsOf(p) == IF p \in ShimmerPresets \cup {"SoftFade"} THEN ShimmerTextPool ELSE TextPool

SnapshotAtStop(old, t) ==
    [i \in 1..Len(old) |->
        [word |-> old[i].word, state |-> TimelineState(old[i], t),
         due |-> ScheduledStart(old[i])]]

\* after a text change while stopped, the snapshot keeps the words still mounted
KeepSnapshot(snap, new) ==
    [i \in 1..Len(snap) |->
        IF i <= Len(new) /\ new[i].word = snap[i].word THEN snap[i]
        ELSE [snap[i] EXCEPT !.state = "Unmounted"]]

\* mount: the first render and its effects at time 0
Init ==
    /\ DelaysIdle
    /\ preset \in Presets
    /\ text \in TextPool
    /\ isPlaying \in BOOLEAN
    /\ punctuationDelay = DefaultPunctuationDelay(preset)
    /\ now = 0
    /\ toks = Render(preset, <<>>, isPlaying, text, isPlaying, punctuationDelay, 0)
    /\ signals = 0
    /\ cleanCycle = isPlaying
    /\ atStop = <<>>
    /\ shimmerPos = shimmerPos_value
    /\ TwIdle
    /\ ShowcaseIdle
    /\ ShellIdle

\* mount of a shimmer preset
InitShimmer ==
    /\ DelaysIdle
    /\ preset \in ShimmerPresets
    /\ text \in ShimmerTextPool
    /\ isPlaying \in BOOLEAN
    /\ punctuationDelay = DefaultPunctuationDelay(preset)
    /\ now = 0
    /\ toks = Render(preset, <<>>, isPlaying, text, isPlaying, punctuationDelay, 0)
    /\ signals = 0
    /\ cleanCycle = isPlaying
    /\ atStop = <<>>
    /\ shimmerPos = RenderShimmer(preset, shimmerPos_value, TRUE, isPlaying, text,
                                  isPlaying, text, 0)
    /\ TwIdle
    /\ ShowcaseIdle
    /\ ShellIdle

\* the presets that reveal their tokens once and have no wave
RevealPresets == Presets \cup {"SoftFade"}

\* mount of a reveal preset
InitReveal ==
    /\ DelaysIdle
    /\ preset \in RevealPresets
    /\ text \in TextsOf(preset)
    /\ isPlaying \in BOOLEAN
    /\ punctuationDelay = DefaultPunctuationDelay(preset)
    /\ now = 0
    /\ toks = Render(preset, <<>>, isPlaying, text, isPlaying, punctuationDelay, 0)
    /\ signals = 0
    /\ cleanCycle = isPlaying
    /\ atStop = <<>>
    /\ shimmerPos = shimmerPos_value
    /\ TwIdle
    /\ ShowcaseIdle
    /\ ShellIdle

\* the parent flips isPlaying
SetPlaying(b) ==
    /\ b # isPlaying
    /\ signals < MaxSignals
    /\ isPlaying' = b
    /\ toks' = Render(preset, toks, isPlaying, text, b, punctuationDelay, now)
    /\ signals' = signals + 1
    /\ cleanCycle' = b
    /\ atStop' = IF b THEN <<>> ELSE SnapshotAtStop(toks, now)
    /\ shimmerPos' = RenderShimmer(preset, shimmerPos, FALSE, isPlaying, text, b, text, now)
    /\ UNCHANGED <<preset, text, punctuationDelay, now>>
    /\ UNCHANGED <<delayVars, twVars, scVars, shVars>>

\* the parent passes a new text
SetText(newText) ==
    /\ newText # text
    /\ signals < MaxSignals
    /\ text' = newText
    /\ toks' = Render(preset, toks, isPlaying, newText, isPlaying, punctuationDelay, now)
    /\ signals' = signals + 1
    /\ cleanCycle' = FALSE
    /\ atStop' = KeepSnapshot(atStop, toks')
    /\ shimmerPos' = RenderShimmer(preset, shimmerPos, FALSE, isPlaying, text,
                                   isPlaying, newText, now)
    /\ UNCHANGED <<preset, isPlaying, punctuationDelay, now>>
    /\ UNCHANGED <<delayVars, twVars, scVars, shVars>>

\* the parent flips punctuationDelay
SetPunctuationDelay(b) ==
    /\ b # punctuationDelay
    /\ signals < MaxSignals
    /\ punctuationDelay' = b
    /\ toks' = Render(preset, toks, isPlaying, text, isPlaying, b, now)
    /\ signals' = signals + 1
    /\ cleanCycle' = FALSE
    /\ atStop' = atStop
    /\ shimmerPos' = RenderShimmer(preset, shimmerPos, FALSE, isPlaying, text,
                                   isPlaying, text, now)
    /\ UNCHANGED <<preset, text, isPlaying, now>>
    /\ UNCHANGED <<delayVars, twVars, scVars, shVars>>

\* the parent re-renders with the same props: no dependency changed
Rerender ==
    /\ toks' = Render(preset, toks, isPlaying, text, isPlaying, punctuationDelay, now)
    /\ shimmerPos' = RenderShimmer(preset, shimmerPos, FALSE, isPlaying, text,
                                   isPlaying, text, now)
    /\ UNCHANGED <<preset, text, isPlaying, punctuationDelay, now, signals, cleanCycle, atStop>>
    /\ UNCHANGED <<delayVars, twVars, scVars, shVars>>

\* the animation clock advances
Tick ==
    /\ now + TickMs <= MaxTime
    /\ now' = now + TickMs
    /\ UNCHANGED <<preset, text, isPlaying, punctuationDelay, toks, signals, cleanCycle, atStop,
                   shimmerPos>>
    /\ UNCHANGED <<delayVars, twVars, scVars, shVars>>

Next ==
    \/ \E b \in BOOLEAN : SetPlaying(b)
    \/ \E newText \in TextsOf(preset) : SetText(newText)
    \/ \E b \in BOOLEAN : SetPunctuationDelay(b)
    \/ Rerender
    \/ Tick

Spec == Init /\ [][Next]_vars

SpecShimmer == InitShimmer /\ [][Next]_vars

SpecReveal == InitReveal /\ [][Next]_vars

-----------------------------------------------------------------------------
(* Claims about the per-word timeline (checked under Spec)                 *)

\* the rest value of a track: the value its shared value is created with
RestValue(n) == MountValues(preset)[n].val

AtRest(tok, n) == Sample(tok.svs[n], now) = At(RestValue(n))

\* the tracks of the base reveal; skewX and colorProgress are SkewPop's emphasis
\* sub-timeline, which has a delay of its own
RevealTracks(tok) == TrackNames(tok) \ {"skewX", "colorProgress"}

\* the instant the word's reveal is scheduled to begin
RevealStart(tok) ==
    LET starts == {tok.svs[n].anim.start + tok.svs[n].anim.delay : n \in RevealTracks(tok)}
    IN  CHOOSE x \in starts : \A y \in starts : x <= y

RevealBegun(tok) == \E n \in RevealTracks(tok) : Begun(tok.svs[n], now)

\* C5: a word disarmed while Pending (before its delay elapsed) keeps every track
\* at its rest value for as long as isPlaying stays false, also at and after the
\* instant its start had been scheduled for.
C5_DisarmCancelsPending ==
    ~isPlaying =>
        \A i \in 1..Len(atStop) :
            atStop[i].state = "Pending" =>
                /\ i <= Len(toks)
                /\ \A n \in TrackNames(toks[i]) : AtRest(toks[i], n)

\* C5 witness: stopped, a word was Pending at the stop, and the clock has passed
\* the start it had been scheduled for
C5_Witness ==
    /\ ~isPlaying
    /\ \E i \in 1..Len(atStop) :
          /\ atStop[i].state = "Pending"
          /\ atStop[i].due >= 400
          /\ now > atStop[i].due
          /\ \A n \in TrackNames(toks[i]) : AtRest(toks[i], n)

AllIdleAtRest(ts) ==
    \A i \in 1..Len(ts) :
        \A n \in TrackNames(ts[i]) :
            ts[i].svs[n] = [val |-> RestValue(n), anim |-> NoAnim]

\* C6: a stop (isPlaying true to false) leaves every word Idle whatever state it
\* was in: every track at rest, nothing scheduled; and a disarm applied to an
\* Idle word (an effect re-run while stopped) changes nothing.
C6_StopLeavesIdle ==
    [][ /\ (isPlaying /\ ~isPlaying') => AllIdleAtRest(toks')
        /\ (~isPlaying /\ ~isPlaying') =>
              /\ AllIdleAtRest(toks')
              /\ \A i \in 1..Len(toks') :
                    (i <= Len(toks) /\ toks[i].word = toks'[i].word) =>
                        toks'[i].svs = toks[i].svs ]_vars

\* C6 witness: stopped with words that were Pending, Animating and Settled at the
\* stop, all Idle now
C6_Witness ==
    /\ ~isPlaying
    /\ preset \in {"SlamIn", "SkewPop"}
    /\ {"Pending", "Animating", "Settled"} \subseteq {atStop[i].state : i \in 1..Len(atStop)}
    /\ Len(toks) = Len(atStop)
    /\ \A i \in 1..Len(toks) : TimelineState(toks[i], now) = "Idle"

\* C8: on a false-to-true edge of isPlaying (and on mount with isPlaying true)
\* every track of every word is set to its rest value and the reveal tracks are
\* scheduled to start after the word's delay; until the delay has elapsed the
\* tracks stay at their rest values.
C8_ArmEdge ==
    (~isPlaying /\ isPlaying') =>
        \A i \in 1..Len(toks') :
            /\ \A n \in TrackNames(toks'[i]) : toks'[i].svs[n].val = RestValue(n)
            /\ \A n \in RevealTracks(toks'[i]) :
                  /\ toks'[i].svs[n].anim.start = now'
                  /\ toks'[i].svs[n].anim.delay = toks'[i].delay

C8_PendingAtRest ==
    isPlaying =>
        \A i \in 1..Len(toks) :
            \A n \in RevealTracks(toks[i]) :
                /\ Scheduled(toks[i].svs[n])
                /\ now - toks[i].svs[n].anim.start <= toks[i].delay => AtRest(toks[i], n)

C9_RevealOrder ==
    (isPlaying /\ cleanCycle) =>
        \A i \in 1..Len(toks) : \A j \in 1..(i - 1) :
            /\ RevealStart(toks[j]) <= RevealStart(toks[i])
            /\ RevealBegun(toks[i]) => RevealBegun(toks[j])

\* C9 witness: SplitTiming armed by an edge, the first group has begun and the
\* second group has not
C9_Witness ==
    /\ isPlaying /\ cleanCycle /\ signals >= 1
    /\ preset = "SplitTiming"
    /\ Len(toks) >= 3
    /\ RevealBegun(toks[2])
    /\ ~RevealBegun(toks[3])

\* C10: when text or punctuationDelay changes while isPlaying is true, every word
\* is disarmed and re-armed from one common zero (the instant of the change) with
\* the new delay plan; a render with no prop changed leaves every timeline as it is.
C10_ChangeRestartsAll ==
    [][ /\ (isPlaying /\ isPlaying'
              /\ (text' # text \/ punctuationDelay' # punctuationDelay)) =>
              \A i \in 1..Len(toks') :
                  /\ toks'[i].delay = Delays(preset, splitWords(text'), punctuationDelay')[i]
                  /\ \A n \in RevealTracks(toks'[i]) :
                        /\ toks'[i].svs[n].val = RestValue(n)
                        /\ toks'[i].svs[n].anim.start = now'
                        /\ toks'[i].svs[n].anim.delay = toks'[i].delay
        /\ (isPlaying' = isPlaying /\ text' = text
              /\ punctuationDelay' = punctuationDelay /\ now' = now) => toks' = toks ]_vars

\* C13: in SkewPop the emphasis sub-timeline (skewX, colorProgress) of the
\* designated word starts only after that word's base reveal (opacity 0 to 1) has
\* completed.
C13_EmphasisAfterReveal ==
    (preset = "SkewPop" /\ isPlaying) =>
        \A i \in 1..Len(toks) :
            \A n \in {"skewX", "colorProgress"} :
                Begun(toks[i].svs[n], now) => Finished(toks[i].svs["opacity"], now)

\* a track that is num / den of the way of its interpolation from a to b
Between(a, b, num, den) == [from |-> a, to |-> b, num |-> num, den |-> den]

\* ms since the word's delay elapsed (negative before)
SinceDelay(tok) == now - tok.svs["translateX"].anim.start - tok.delay

\* C25: in SlamIn, after a word's delay its horizontal offset runs three stages
\* one after the other: 60 to 0 in 180 ms, 0 to 5 in 80 ms, 5 to 0 in 150 ms,
\* while opacity runs from 0 to 1 in 100 ms; no stage starts before the previous
\* one has ended, and the offset is at its terminal 0 from 410 ms after the delay.
C25_SlamInStages ==
    (preset = "SlamIn" /\ isPlaying) =>
        \A i \in 1..Len(toks) :
            LET e == SinceDelay(toks[i])
                x == Sample(toks[i].svs["translateX"], now)
                o == Sample(toks[i].svs["opacity"], now)
            IN  /\ toks[i].svs["opacity"].anim.start = toks[i].svs["translateX"].anim.start
                /\ toks[i].svs["opacity"].anim.delay = toks[i].delay
                /\ toks[i].svs["translateX"].anim.delay = toks[i].delay
                /\ e <= 0 => (x = At(60) /\ o = At(0))
                /\ (0 < e /\ e < 180) => x = Between(60, 0, e, 180)
                /\ (180 <= e /\ e < 260) => x = Between(0, 5, e - 180, 80)
                /\ (260 <= e /\ e < 410) => x = Between(5, 0, e - 260, 150)
                /\ e >= 410 => x = At(0)
                /\ (0 < e /\ e < 100) => o = Between(0, 1, e, 100)
                /\ e >= 100 => o = At(1)

\* C25 witness: SlamIn is playing; one word is in its slam, a second is bouncing
\* back towards 5 and a third has settled at 0
C25_Witness ==
    /\ preset = "SlamIn" /\ isPlaying
    /\ \E i, j, k \in 1..Len(toks) :
          /\ 0 < SinceDelay(toks[i]) /\ SinceDelay(toks[i]) < 180
          /\ 180 < SinceDelay(toks[j]) /\ SinceDelay(toks[j]) < 260
          /\ Sample(toks[j].svs["translateX"], now).to = 5
          /\ SinceDelay(toks[k]) >= 410
          /\ Sample(toks[k].svs["translateX"], now) = At(0)

-----------------------------------------------------------------------------
(* Claims about the reveal presets, SoftFade included (checked under       *)
(* SpecReveal)                                                             *)

\* the longest reveal track of a token, in ms
LongestReveal(p) ==
    CASE p = "LineSlide" -> 800
      [] p = "ScaleFade" -> 500
      [] p = "SplitTiming" -> 450
      [] p = "RapidFire" -> 250
      [] p = "SlamIn" -> 410
      [] p = "SkewPop" -> 300
      [] p = "SoftFade" -> 550

\* the terminal visible value of a reveal track: opacity 1, offset 0, scale 1
\* (ScaleFade keeps its scale in hundredths)
TerminalValue(p, n) ==
    CASE n = "opacity" -> At(1)
      [] n \in {"translateX", "translateY"} -> At(0)
      [] n = "scale" -> IF p = "SoftFade" THEN At(One) ELSE At(100)

\* isPlaying is true and no prop changed since the play signal (or the mount)
PlayingUndisturbed == isPlaying /\ cleanCycle

\* the instant of the play signal, read off the first token
PlayedAt == toks[1].svs["opacity"].anim.start

RevealSettled(tok) ==
    \A n \in RevealTracks(tok) : Sample(tok.svs[n], now) = TerminalValue(preset, n)

Deadline(tok) == PlayedAt + tok.delay + LongestReveal(preset)

C24_SettledByDeadline ==
    PlayingUndisturbed =>
        \A i \in 1..Len(toks) :
            /\ \A n \in RevealTracks(toks[i]) :
                   /\ toks[i].svs[n].anim.start = PlayedAt
                   /\ toks[i].svs[n].anim.delay = toks[i].delay
            /\ now >= Deadline(toks[i]) => RevealSettled(toks[i])

C24_SettledStays ==
    (PlayingUndisturbed /\ isPlaying' /\ cleanCycle') =>
        \A i \in 1..Len(toks) :
            now >= Deadline(toks[i]) =>
                /\ Len(toks') = Len(toks)
                /\ \A n \in RevealTracks(toks[i]) :
                       Sample(toks'[i].svs[n], now') = Sample(toks[i].svs[n], now)

\* C24: while isPlaying stays true and text and punctuationDelay do not change,
\* every token of a reveal preset has all its reveal tracks at their terminal
\* visible values (opacity 1, offset 0, scale 1) from its delay plus its longest
\* track duration after the play signal on, and from then on none of those
\* tracks changes before the next play or stop signal.
C24_RevealSettles == []C24_SettledByDeadline /\ [][C24_SettledStays]_vars

\* C24 witness: SoftFade is playing undisturbed; a character with a positive
\* delay has passed its deadline and is settled while a later one is still
\* under way
C24_Witness ==
    /\ preset = "SoftFade" /\ PlayingUndisturbed
    /\ \E i, j \in 1..Len(toks) :
          /\ toks[i].delay > 0
          /\ now >= Deadline(toks[i])
          /\ RevealSettled(toks[i])
          /\ now > PlayedAt + toks[j].delay
          /\ now < Deadline(toks[j])
          /\ ~RevealSettled(toks[j])

-----------------------------------------------------------------------------
(* Claims about the shimmer presets (checked under SpecShimmer)            *)

PunctChangeWhilePlaying ==
    isPlaying /\ isPlaying' /\ text' = text /\ punctuationDelay' # punctuationDelay

C12_EmptyTextNoWork ==
    text = <<>> =>
        /\ Tokens(preset, text) = <<>>
        /\ toks = <<>>
        /\ shimmerPos.anim = NoSweep

\* the position the sweep would have after ph ms of a rise if it were linear,
\* over the same denominator as the samples
LinearRise(sv, ph) ==
    LET S == sv.anim.sweep
    IN  (sv.val * S + (sv.anim.hi - sv.val) * ph) * S

InRange(smp, lo, hi) == lo * smp.den <= smp.num /\ smp.num <= hi * smp.den

\* the phase of the sweep at time t, in 0 .. 2 * sweep - 1
Phase(sv, t) == (t - sv.anim.start) % (2 * sv.anim.sweep)

\* C15 as stated: while playing, the position starts at -0.5, rises linearly to
\* tokenCount + 1 over tokenCount * 450 ms, returns linearly over the same
\* duration and repeats; it stays in [-0.5, tokenCount + 1] and has period
\* 2 * sweepDurationMs; tokenCount is the number of tokens the preset animates.
C15_LinearSweepOverTokens ==
    isPlaying =>
        LET n == Len(toks)
            S == 450 * n
            sv == shimmerPos
        IN  /\ sv.val = 0 - 5
            /\ sv.anim.hi = 10 * (n + 1)
            /\ sv.anim.sweep = S
            /\ \A smp \in ShimmerSamples(sv, now) : InRange(smp, 0 - 5, 10 * (n + 1))
            /\ S > 0 =>
                  /\ ShimmerSamples(sv, now + 2 * S) = ShimmerSamples(sv, now)
                  /\ \A smp \in ShimmerSamples(sv, now) :
                        LET ph == Phase(sv, now)
                        IN  smp.num = IF ph <= S THEN LinearRise(sv, ph)
                                      ELSE LinearRise(sv, 2 * S - ph)

\* C15, corrected: while playing, the position starts at -0.5, rises to
\* wordCount + 1 over wordCount * 450 ms, returns over the same duration and
\* repeats, where wordCount is the number of words of the text in both presets
\* (LetterShimmer animates characters but sweeps over the words).  The rise is
\* eased, not linear: strictly increasing, behind the straight line in its first
\* half and ahead of it in its second half; the return mirrors the rise.  The
\* position stays in [-0.5, wordCount + 1] and has period 2 * sweepDurationMs.
C15_EasedSweepOverWords ==
    isPlaying =>
        LET n == Len(splitWords(text))
            S == 450 * n
            sv == shimmerPos
            at(ph) == ShimmerSamples(sv, sv.anim.start + ph)
        IN  /\ sv.val = 0 - 5
            /\ sv.anim.hi = 10 * (n + 1)
            /\ sv.anim.sweep = S
            /\ \A smp \in ShimmerSamples(sv, now) : InRange(smp, 0 - 5, 10 * (n + 1))
            /\ \A smp \in at(0) : smp.num = (0 - 5) * smp.den
            /\ S > 0 =>
                  LET ph == Phase(sv, now)
                      up == IF ph <= S THEN ph ELSE 2 * S - ph
                  IN  /\ \A smp \in at(S) : smp.num = sv.anim.hi * smp.den
                      /\ \A smp \in at(2 * S) : smp.num = (0 - 5) * smp.den
                      /\ \A k \in 1..3 : ShimmerSamples(sv, now + 2 * k * S) = ShimmerSamples(sv, now)
                      /\ at(ph) = at(2 * S - ph)
                      /\ \A smp \in at(up) :
                            /\ (0 < up /\ 2 * up < S) => smp.num < LinearRise(sv, up)
                            /\ (2 * up > S /\ up < S) => smp.num > LinearRise(sv, up)
                            /\ 2 * up = S => smp.num = LinearRise(sv, up)
                      /\ up < S => \A a \in at(up) : \A b \in at(up + 1) : a.num < b.num

\* C15 witness: LetterShimmer plays a one-word text of three characters, a full
\* cycle of 900 ms has passed and the position is inside its range again
C15_Witness ==
    /\ isPlaying
    /\ preset = "LetterShimmer"
    /\ Len(toks) = 3
    /\ shimmerPos.anim.sweep = 450
    /\ now - shimmerPos.anim.start > 900
    /\ \A smp \in ShimmerSamples(shimmerPos, now) :
          (0 - 5) * smp.den < smp.num /\ smp.num < 20 * smp.den

\* C16: a stop at any point of the sweep cancels the repeating interpolation and
\* sets the position to -0.5; the position stays at -0.5 while isPlaying is
\* false; every play (an edge or a mount with isPlaying true) starts its sweep
\* from -0.5.
C16_StopEdge ==
    /\ (isPlaying /\ ~isPlaying') => shimmerPos' = [val |-> 0 - 5, anim |-> NoSweep]
    /\ (~isPlaying /\ isPlaying') =>
          /\ shimmerPos'.anim # NoSweep
          /\ shimmerPos'.anim.start = now'
          /\ \A smp \in ShimmerSamples(shimmerPos', now') : smp.num = (0 - 5) * smp.den

C16_StoppedAtStart ==
    /\ ~isPlaying =>
          /\ shimmerPos.anim = NoSweep
          /\ ShimmerSamples(shimmerPos, now) = {[num |-> 0 - 5, den |-> 1]}
    /\ isPlaying =>
          \A smp \in ShimmerSamples(shimmerPos, shimmerPos.anim.start) :
              smp.num = (0 - 5) * smp.den

C16_StopResetsShimmer == []C16_StoppedAtStart /\ [][C16_StopEdge]_vars

\* C16 witness: stopped while a token was mid-reveal, so the sweep was under way,
\* and time has passed since; the position is -0.5 with nothing attached
C16_Witness ==
    /\ ~isPlaying
    /\ Len(splitWords(text)) > 0
    /\ \E i \in 1..Len(atStop) :
          /\ atStop[i].state = "Animating"
          /\ now >= atStop[i].due + 600
    /\ shimmerPos = [val |-> 0 - 5, anim |-> NoSweep]

\* positions on a grid of twentieths over the range of the sweep, besides the
\* position sampled at the current instant
PositionsToSample ==
    ShimmerSamples(shimmerPos, now)
        \cup {[num |-> k, den |-> 2] : k \in (0 - 10)..(20 * (Len(splitWords(text)) + 1))}

\* the intensity of token i (1-based) at position pos, as the preset computes it
Intensity(pos, i) ==
    IF preset = "LetterShimmer" THEN intensityChar(pos, i - 1, Len(toks))
    ELSE intensityWord(pos, i - 1)

\* |pos - tokenCoordinate| compared with 1 / falloff, and with 0
AtCoordinate(pos, i) ==
    IF preset = "LetterShimmer" THEN pos.num * Len(toks) = 40 * (i - 1) * pos.den
    ELSE pos.num = 10 * (i - 1) * pos.den

BeyondFalloff(pos, i) ==
    IF preset = "LetterShimmer"
    THEN 3 * Abs(pos.num * Len(toks) - 40 * (i - 1) * pos.den) >= 50 * pos.den * Len(toks)
    ELSE 4 * Abs(pos.num - 10 * (i - 1) * pos.den) >= 50 * pos.den

\* C17: for every position and every token the intensity
\* max(0, 1 - |position - tokenCoordinate| * falloff) lies in [0, 1], is 1 exactly
\* when the position equals the token coordinate, and is 0 whenever the distance
\* is at least 1 / falloff (tokenCoordinate = index and falloff 0.8 in WordShimmer,
\* index / (totalChars / 4) and 0.6 in LetterShimmer).
C17_IntensityRange ==
    \A pos \in PositionsToSample : \A i \in 1..Len(toks) :
        LET x == Intensity(pos, i)
        IN  /\ 0 <= x.num /\ x.num <= x.den /\ x.den > 0
            /\ x.num = x.den <=> AtCoordinate(pos, i)
            /\ BeyondFalloff(pos, i) => x.num = 0

\* C17 witness: the sweep is under way and, at the sampled position, one token is
\* partly lit and another is dark
C17_Witness ==
    /\ isPlaying /\ now > shimmerPos.anim.start
    /\ \E pos \in ShimmerSamples(shimmerPos, now) : \E i, j \in 1..Len(toks) :
          /\ 0 < Intensity(pos, i).num /\ Intensity(pos, i).num < Intensity(pos, i).den
          /\ Intensity(pos, j).num = 0
          /\ BeyondFalloff(pos, j)

\* C30: in both shimmer presets, playing a non-empty text, the sweep range
\* [-0.5, N + 1] (N the number of words) holds the coordinate of every token:
\* i for the words of WordShimmer, index / (totalChars / 4) for the characters
\* of LetterShimmer, so the wave passes over every token in each sweep.
C30_SweepCoversTokens ==
    (isPlaying /\ Len(text) > 0 /\ shimmerPos.anim # NoSweep) =>
        /\ shimmerPos.anim.hi = 10 * (Len(splitWords(text)) + 1)
        /\ \A i \in 1..Len(toks) :
               IF preset = "LetterShimmer"
               THEN /\ (0 - 5) * Len(toks) <= 40 * (i - 1)
                    /\ 40 * (i - 1) <= shimmerPos.anim.hi * Len(toks)
               ELSE /\ 0 - 5 <= 10 * (i - 1)
                    /\ 10 * (i - 1) <= shimmerPos.anim.hi

-----------------------------------------------------------------------------
(* Harness of the delay functions: the inputs are drawn at Init, an action *)
(* is one call.                                                            *)

Staggers == {0, 25, 100}

InitDelays ==
    /\ argWords \in SeqsUpTo(WordPool, MaxWords) \cup SeqsUpTo(WidePool, MaxWideWords)
    /\ argStagger \in Staggers
    /\ argPunct \in BOOLEAN
    /\ called = "none"
    /\ passed = [tokens |-> <<>>, staggerMs |-> 0]
    /\ result = <<>>
    /\ SeqIdle
    /\ TwIdle
    /\ ShowcaseIdle
    /\ ShellIdle

CallComputeWordDelays ==
    /\ called' = "computeWordDelays"
    /\ passed' = [tokens |-> argWords, staggerMs |-> argStagger]
    /\ result' = computeWordDelays(argWords, argStagger, argPunct)
    /\ UNCHANGED <<argWords, argStagger, argPunct, seqVars, twVars, scVars, shVars>>
CallComputeCharDelays ==
    /\ called' = "computeCharDelays"
    /\ passed' = [tokens |-> splitChars(JoinWith(argWords, " ")), staggerMs |-> argStagger]
    /\ result' = computeCharDelays(splitChars(JoinWith(argWords, " ")), argStagger, argPunct)
    /\ UNCHANGED <<argWords, argStagger, argPunct, seqVars, twVars, scVars, shVars>>
CallComputeSplitDelays ==
    /\ called' = "computeSplitDelays"
    /\ passed' = [tokens |-> argWords, staggerMs |-> 100]
    /\ result' = computeSplitDelays(argWords, argPunct)
    /\ UNCHANGED <<argWords, argStagger, argPunct, seqVars, twVars, scVars, shVars>>
NextDelays ==
    \/ CallComputeWordDelays
    \/ CallComputeCharDelays
    \/ CallComputeSplitDelays

SpecDelays == InitDelays /\ [][NextDelays]_vars

-----------------------------------------------------------------------------
(* Claims about the delay scheduler (checked under SpecDelays)             *)

Returned == called # "none"

\* the pause the plan injects after a token: by its last character
PauseAfter(tok) ==
    IF Len(tok) > 0 /\ tok[Len(tok)] \in {".", "!", "?"} THEN 300
    ELSE IF Len(tok) > 0 /\ tok[Len(tok)] = "," THEN 150
    ELSE 0

\* C1: every delay plan (computeWordDelays, computeCharDelays, computeSplitDelays;
\* any tokens, any stagger >= 0, pausing on or off) has one entry per token, is
\* non-decreasing, and adjacent delays differ by at least staggerMs.
C1_DelayMonotonicity ==
    Returned =>
        /\ Len(result) = Len(passed.tokens)
        /\ \A i \in 1..(Len(result) - 1) :
              /\ result[i] <= result[i + 1]
              /\ result[i + 1] - result[i] >= passed.staggerMs

\* C1 witness: a plan of three or more tokens with a punctuation pause inside,
\* returned by computeSplitDelays with both groups non-empty
C1_Witness ==
    /\ called = "computeSplitDelays"
    /\ argPunct
    /\ Len(result) >= 3
    /\ CeilSixTenths(Len(result)) < Len(result)
    /\ \E i \in 1..(Len(result) - 1) : result[i + 1] - result[i] > 100

\* C2: with punctuation pausing on, delays[0] = 0 and delays[i+1] = delays[i] +
\* staggerMs + pause(token i), pause being 300 after . ! ?, 150 after a comma and 0
\* otherwise, so a pause moves only later tokens; ["Hi,", "there"] at stagger 100
\* gives [0, 250] and ["Stop.", "Now"] gives [0, 400].
C2_PunctuationPause ==
    (called \in {"computeWordDelays", "computeCharDelays"} /\ argPunct) =>
        /\ Len(result) = Len(passed.tokens)
        /\ Len(result) > 0 => result[1] = 0
        /\ \A i \in 1..(Len(result) - 1) :
              result[i + 1] = result[i] + passed.staggerMs + PauseAfter(passed.tokens[i])
        /\ (called = "computeWordDelays" /\ passed.staggerMs = 100) =>
              /\ passed.tokens = <<Str_Hi, Str_there>> => result = <<0, 250>>
              /\ passed.tokens = <<Str_Stop, Str_Now>> => result = <<0, 400>>

\* C2 witness: the plan [0, 250] of ["Hi,", "there"] has been returned
C2_Witness ==
    /\ called = "computeWordDelays"
    /\ argPunct
    /\ passed = [tokens |-> <<Str_Hi, Str_there>>, staggerMs |-> 100]
    /\ result = <<0, 250>>

\* C3: with punctuation pausing off, delays[i] = i * staggerMs whatever the tokens
\* are, and the fast path returns what the cumulative loop returns with both pauses 0.
C3_FastPath ==
    (called \in {"computeWordDelays", "computeCharDelays"} /\ ~argPunct) =>
        /\ Len(result) = Len(passed.tokens)
        /\ \A i \in 1..Len(result) : result[i] = (i - 1) * passed.staggerMs
        /\ called = "computeWordDelays" =>
              result = WordDelayLoop(passed.tokens, passed.staggerMs, 0, 0, 1, 0)
        /\ called = "computeCharDelays" =>
              result = CharDelayLoop(passed.tokens, passed.staggerMs, 0, 0, 1, 0)

\* C3 witness: a fast-path plan over tokens of which a non-final one ends in
\* punctuation
C3_Witness ==
    /\ called = "computeWordDelays"
    /\ ~argPunct
    /\ argStagger > 0
    /\ Len(result) >= 3
    /\ PauseAfter(passed.tokens[1]) > 0
    /\ result[3] = 2 * argStagger

\* C4: computeSplitDelays splits n words at s = ceil(0.6 n); words [0, s) get
\* computeWordDelays(group1, 100, p), words [s, n) get computeWordDelays(group2,
\* 100, p) shifted by (last delay of group 1 + 100 + 400); n = 5 without pausing
\* gives [0, 100, 200, 700, 800]; the gap across the split is exactly 500.
C4_SplitTiming ==
    called = "computeSplitDelays" =>
        LET n == Len(passed.tokens)
            s == IF (6 * n) % 10 = 0 THEN (6 * n) \div 10 ELSE (6 * n) \div 10 + 1
            g1 == computeWordDelays(SubSeq(passed.tokens, 1, s), 100, argPunct)
            g2 == computeWordDelays(SubSeq(passed.tokens, s + 1, n), 100, argPunct)
        IN  /\ Len(result) = n
            /\ \A i \in 1..s : result[i] = g1[i]
            /\ \A i \in (s + 1)..n : result[i] = g2[i - s] + g1[s] + 100 + 400
            /\ (n = 5 /\ ~argPunct) => result = <<0, 100, 200, 700, 800>>
            /\ s < n => result[s + 1] - result[s] = 500

\* C4 witness: five words, pausing off, the plan [0, 100, 200, 700, 800]
C4_Witness ==
    /\ called = "computeSplitDelays"
    /\ ~argPunct
    /\ Len(passed.tokens) = 5
    /\ result = <<0, 100, 200, 700, 800>>

-----------------------------------------------------------------------------
(* Harness of the tokenizers and of SkewPop's emphasis marking: the text   *)
(* is drawn at Init, an action is one call.                                *)

TextAlphabet == {" ", "a", ",", "."}

\* n one-letter words joined by single blanks
WordsText(n) == JoinWith([i \in 1..n |-> <<"a">>], " ")

InitTokens ==
    /\ argWords \in SeqsUpTo(TextAlphabet, MaxTextLen)
                     \cup {WordsText(n) : n \in 0..MaxCount}
                     \cup {JoinWith(ws, " ") : ws \in SeqsUpTo(WidePool, MaxWideWords)}
    /\ argStagger = 0
    /\ argPunct = FALSE
    /\ called = "none"
    /\ passed = [tokens |-> <<>>, staggerMs |-> 0]
    /\ result = <<>>
    /\ SeqIdle
    /\ TwIdle
    /\ ShowcaseIdle
    /\ ShellIdle

\* const words = useMemo(() => splitWords(text), [text])
CallSplitWords ==
    /\ called' = "splitWords"
    /\ passed' = [tokens |-> argWords, staggerMs |-> 0]
    /\ result' = splitWords(argWords)
    /\ UNCHANGED <<argWords, argStagger, argPunct, seqVars, twVars, scVars, shVars>>

\* const chars = useMemo(() => splitChars(text), [text])
CallSplitChars ==
    /\ called' = "splitChars"
    /\ passed' = [tokens |-> argWords, staggerMs |-> 0]
    /\ result' = splitChars(argWords)
    /\ UNCHANGED <<argWords, argStagger, argPunct, seqVars, twVars, scVars, shVars>>

\* SkewPop's render: emphasisIndex and the isEmphasis prop of every word
CallSkewPop ==
    /\ called' = "SkewPop"
    /\ passed' = [tokens |-> argWords, staggerMs |-> 0]
    /\ result' = LET ws == splitWords(argWords)
                 IN  [emphasisIndex |-> emphasisIndex(ws),
                      isEmphasis |-> [i \in 1..Len(ws) |-> IsEmphasis("SkewPop", ws, i)]]
    /\ UNCHANGED <<argWords, argStagger, argPunct, seqVars, twVars, scVars, shVars>>

\* const intensities = useMemo(() => computeCharCrescendo(chars), [chars])
CallComputeCharCrescendo ==
    /\ called' = "computeCharCrescendo"
    /\ passed' = [tokens |-> splitChars(argWords), staggerMs |-> 0]
    /\ result' = computeCharCrescendo(splitChars(argWords))
    /\ UNCHANGED <<argWords, argStagger, argPunct, seqVars, twVars, scVars, shVars>>

NextTokens ==
    \/ CallSplitWords
    \/ CallSplitChars
    \/ CallSkewPop
    \/ CallComputeCharCrescendo

SpecTokens == InitTokens /\ [][NextTokens]_vars

-----------------------------------------------------------------------------
(* Claims about the tokenizers and the emphasis index (checked under       *)
(* SpecTokens)                                                             *)

\* C14: the emphasis index is min(2, count - 1): 0, 1, 2, 2 for 1, 2, 3, 10 words;
\* exactly one word is marked for every count >= 1 and none for count 0.
C14_EmphasisIndex ==
    called = "SkewPop" =>
        LET n == Len(result.isEmphasis)
            marked == {i \in 1..n : result.isEmphasis[i]}
        IN  /\ (n = 1 => result.emphasisIndex = 0)
            /\ (n = 2 => result.emphasisIndex = 1)
            /\ (n = 3 => result.emphasisIndex = 2)
            /\ (n = 10 => result.emphasisIndex = 2)
            /\ (n >= 3 => result.emphasisIndex = 2)
            /\ (n >= 1 => marked = {result.emphasisIndex + 1})
            /\ (n = 0 => marked = {})

\* C14 witness: ten words, the third is the one marked
C14_Witness ==
    /\ called = "SkewPop"
    /\ Len(result.isEmphasis) = 10
    /\ result.emphasisIndex = 2
    /\ result.isEmphasis[3]

\* the text with every run of blanks collapsed to one blank and the outer blanks
\* removed: a blank is kept iff it follows a non-blank and a non-blank comes later
RECURSIVE CollapseFrom(_, _)
CollapseFrom(t, i) ==
    IF i > Len(t) THEN <<>>
    ELSE IF t[i] # " " THEN <<t[i]>> \o CollapseFrom(t, i + 1)
    ELSE IF i > 1 /\ t[i - 1] # " " /\ (\E j \in (i + 1)..Len(t) : t[j] # " ")
         THEN <<" ">> \o CollapseFrom(t, i + 1)
    ELSE CollapseFrom(t, i + 1)

RECURSIVE Concat(_)
Concat(ss) == IF Len(ss) = 0 THEN <<>> ELSE ss[1] \o Concat(Tail(ss))

HasBlank(w) == \E k \in 1..Len(w) : w[k] = " "

\* C18: splitWords returns the maximal blank-free runs of the text in order: no
\* token is empty or contains a blank, runs of blanks and outer blanks give no
\* token, and the tokens joined by single blanks are the text with blank runs
\* collapsed and outer blanks removed.  A second call on the same text returns
\* an equal sequence.
C18_TokensOfText ==
    called = "splitWords" =>
        /\ \A i \in 1..Len(result) : Len(result[i]) > 0 /\ ~HasBlank(result[i])
        /\ JoinWith(result, " ") = CollapseFrom(passed.tokens, 1)
        /\ Len(JoinWith(result, " ")) <= Len(passed.tokens)
        /\ (\A k \in 1..Len(passed.tokens) : passed.tokens[k] = " ") => result = <<>>

C18_SameAgain ==
    (called = "splitWords" /\ called' = "splitWords") => result' = result

C18_SplitWords == []C18_TokensOfText /\ [][C18_SameAgain]_vars

\* C18 witness: a text with a leading blank and a run of two blanks inside gave
\* two tokens
C18_Witness ==
    /\ called = "splitWords"
    /\ passed.tokens = <<" ", "a", " ", " ", ",">>
    /\ result = << <<"a">>, <<",">> >>

\* C19: splitChars returns one token per character, blanks included, in order:
\* as many tokens as the text is long, each one character, their concatenation
\* is the text, and the empty text gives the empty sequence.
C19_SplitChars ==
    called = "splitChars" =>
        /\ Len(result) = Len(passed.tokens)
        /\ \A i \in 1..Len(result) : result[i] = <<passed.tokens[i]>>
        /\ Concat(result) = passed.tokens
        /\ passed.tokens = <<>> => result = <<>>

\* C19 witness: a text with blanks gave one token per character, the blanks too
C19_Witness ==
    /\ called = "splitChars"
    /\ passed.tokens = <<"a", " ", " ", ",", " ">>
    /\ Len(result) = 5
    /\ result[2] = <<" ">>

\* the character closes a crescendo group of cs
ClosesGroup(cs, i) == cs[i] \in {<<".">>, <<"!">>, <<"?">>} \/ i = Len(cs)

\* first and last index of the group character j lies in
GroupFirst(cs, j) ==
    IF \E i \in 1..(j - 1) : ClosesGroup(cs, i)
    THEN 1 + CHOOSE i \in 1..(j - 1) :
                 ClosesGroup(cs, i) /\ \A m \in (i + 1)..(j - 1) : ~ClosesGroup(cs, m)
    ELSE 1

GroupLast(cs, j) ==
    CHOOSE i \in j..Len(cs) : ClosesGroup(cs, i) /\ \A m \in j..(i - 1) : ~ClosesGroup(cs, m)

\* C26: computeCharCrescendo splits the characters into consecutive groups, each
\* ending at a '.', '!' or '?' or at the last character, a comma ending none; the
\* k-th character of a group of size g gets k / g, so every intensity is in
\* (0, 1], rises strictly inside a group and is 1 on the group's last character.
C26_CharCrescendo ==
    called = "computeCharCrescendo" =>
        LET cs == passed.tokens
            n == Len(cs)
        IN  /\ Len(result) = n
            /\ \A j \in 1..n :
                   LET first == GroupFirst(cs, j)
                       last == GroupLast(cs, j)
                       x == result[j]
                   IN  /\ x.num = j - first + 1
                       /\ x.den = last - first + 1
                       /\ 0 < x.num /\ x.num <= x.den
                       /\ (j = last) = (x.num = x.den)
                       /\ (cs[j] = <<",">> /\ j < n) => x.num < x.den
                       /\ j < last =>
                              x.num * result[j + 1].den < result[j + 1].num * x.den

\* C26 witness: "a,a.a" is a group of 4 with the comma inside it and a group of 1
C26_Witness ==
    /\ called = "computeCharCrescendo"
    /\ passed.tokens = splitChars(<<"a", ",", "a", ".", "a">>)
    /\ result[2] = Ratio(2, 4)
    /\ result[4] = Ratio(4, 4)
    /\ result[5] = Ratio(1, 1)

-----------------------------------------------------------------------------
(* One AnimationSection of the showcase: the play button, the 50 ms start  *)
(* timer, the auto-stop timer and the fade-out that ends in finishHide.    *)

InitShowcase ==
    /\ DelaysIdle
    /\ SeqIdle
    /\ TwIdle
    /\ ShowcaseIdle
    /\ ShellIdle

\* the due times of everything pending in the section
PendingDue ==
    {tm.at : tm \in startTimers \cup hideTimers} \cup (IF fadeOut >= 0 THEN {fadeOut} ELSE {})

\* timers fire in the order of their due times
IsNextDue(at) == at <= scNow /\ \A d \in PendingDue : at <= d

\* of two timers of one kind due at the same time, the one set first fires first
IsFirstOf(tm, pending) == \A other \in pending : other.at = tm.at => tm.id <= other.id

\* handlePlay: clear the auto-stop hideTimeoutRef points at, hide, and start the
\* 50 ms timer; the ref itself is left as it is
handlePlay ==
    /\ presses < MaxPresses
    /\ hideTimers' = IF hideTimeoutRef # 0
                      THEN {tm \in hideTimers : tm.id # hideTimeoutRef}
                      ELSE hideTimers
    /\ scIsPlaying' = FALSE
    /\ showComponent' = FALSE
    /\ fadeOut' = 0 - 1
    /\ startTimers' = startTimers \cup {[id |-> presses + 1, at |-> scNow + StartDelayMs]}
    /\ presses' = presses + 1
    /\ UNCHANGED <<scNow, hideTimeoutRef, staleHideFired>>
    /\ UNCHANGED <<delayVars, seqVars, twVars, shVars>>

\* the callback of the 50 ms timer: show, play, fade in, schedule the auto-stop
StartFires ==
    \E tm \in startTimers :
        /\ IsNextDue(tm.at)
        /\ IsFirstOf(tm, startTimers)
        /\ startTimers' = startTimers \ {tm}
        /\ showComponent' = TRUE
        /\ scIsPlaying' = TRUE
        /\ fadeOut' = 0 - 1
        /\ hideTimers' = hideTimers \cup {[id |-> tm.id, at |-> scNow + AUTO_HIDE_MS]}
        /\ hideTimeoutRef' = tm.id
        /\ UNCHANGED <<scNow, presses, staleHideFired>>
        /\ UNCHANGED <<delayVars, seqVars, twVars, shVars>>

\* the callback of the auto-stop timer: start the fade-out, null the ref
HideFires ==
    \E tm \in hideTimers :
        /\ IsNextDue(tm.at)
        /\ IsFirstOf(tm, hideTimers)
        /\ hideTimers' = hideTimers \ {tm}
        /\ fadeOut' = scNow + FadeOutMs
        /\ hideTimeoutRef' = 0
        /\ staleHideFired' = (staleHideFired \/ tm.id < presses)
        /\ UNCHANGED <<scNow, scIsPlaying, showComponent, startTimers, presses>>
        /\ UNCHANGED <<delayVars, seqVars, twVars, shVars>>

\* the fade-out ran to its end: finishHide
FadeOutEnds ==
    /\ fadeOut >= 0
    /\ IsNextDue(fadeOut)
    /\ scIsPlaying' = FALSE
    /\ showComponent' = FALSE
    /\ fadeOut' = 0 - 1
    /\ UNCHANGED <<scNow, hideTimeoutRef, startTimers, hideTimers, presses, staleHideFired>>
    /\ UNCHANGED <<delayVars, seqVars, twVars, shVars>>

\* the clock advances by a short step, or to the next due time if that is sooner
ScTick ==
    /\ startTimers # {}
    /\ \A d \in PendingDue : d > scNow
    /\ scNow + ScTickMs <= MaxScTime
    /\ scNow' = IF \E d \in PendingDue : d < scNow + ScTickMs
                THEN CHOOSE d \in PendingDue : \A e \in PendingDue : d <= e
                ELSE scNow + ScTickMs
    /\ UNCHANGED <<scIsPlaying, showComponent, hideTimeoutRef, startTimers, hideTimers,
                   fadeOut, presses, staleHideFired>>
    /\ UNCHANGED <<delayVars, seqVars, twVars, shVars>>

\* the clock advances to the next due time
ScWait ==
    /\ PendingDue # {}
    /\ \A d \in PendingDue : d > scNow
    /\ \E d \in PendingDue :
          /\ \A e \in PendingDue : d <= e
          /\ d <= MaxScTime
          /\ scNow' = d
    /\ UNCHANGED <<scIsPlaying, showComponent, hideTimeoutRef, startTimers, hideTimers,
                   fadeOut, presses, staleHideFired>>
    /\ UNCHANGED <<delayVars, seqVars, twVars, shVars>>

\* the clock advances by a long step that passes no due time
ScPause ==
    /\ \A d \in PendingDue : d > scNow + ScPauseMs
    /\ scNow + ScPauseMs <= MaxScTime
    /\ scNow' = scNow + ScPauseMs
    /\ UNCHANGED <<scIsPlaying, showComponent, hideTimeoutRef, startTimers, hideTimers,
                   fadeOut, presses, staleHideFired>>
    /\ UNCHANGED <<delayVars, seqVars, twVars, shVars>>

NextShowcase ==
    \/ handlePlay
    \/ StartFires
    \/ HideFires
    \/ FadeOutEnds
    \/ ScTick
    \/ ScPause
    \/ ScWait

SpecShowcase == InitShowcase /\ [][NextShowcase]_vars

-----------------------------------------------------------------------------
(* Claims about the showcase (checked under SpecShowcase)                  *)

\* C20: for any sequence of play presses on one section, also presses less than
\* 50 ms apart, an auto-stop scheduled by an earlier press never fires after a
\* later press, and at most one auto-stop timer is pending.
C20_AutoStopCancelable ==
    /\ ~staleHideFired
    /\ Cardinality(hideTimers) <= 1

-----------------------------------------------------------------------------
(* The showcase screen: likes, the liked filter, the custom text, the      *)
(* manual order, and the key-value store they are loaded from and saved to *)

MAX_CHARS == 26

Range(xs) == {xs[i] : i \in 1..Len(xs)}

\* new Set(iterable): the elements in the order of their first occurrence
RECURSIVE NewSet(_)
NewSet(xs) ==
    IF Len(xs) = 0 THEN <<>>
    ELSE LET rest == NewSet(SubSeq(xs, 1, Len(xs) - 1))
             last == xs[Len(xs)]
         IN  IF last \in Range(rest) THEN rest ELSE Append(rest, last)

\* mutant: the custom text typed before is there again after a restart
useState_customText_restored == typed

\* useState(''): the custom text of a freshly started screen
useState_customText == <<>>

\* the then-callback of getItem(STORAGE_KEY):
\* if (data) { try { setLikes(new Set(JSON.parse(data))) } catch {} }
\* JSON.parse throws on garbage, new Set throws on a number or an object, and
\* new Set(null) is the empty set; a string is iterated by its characters
likesLoaded(prev, data) ==
    CASE data.kind \in {"none", "garbage", "number", "object"} -> prev
      [] data.kind = "null" -> <<>>
      [] data.kind \in {"string", "list"} -> NewSet(data.items)

\* the then-callback of getItem(ORDER_STORAGE_KEY): ids.map throws unless ids is
\* an array; unknown ids are filtered out, ids not saved are appended
orderLoaded(prev, data) ==
    IF data.kind # "list" THEN prev
    ELSE LET known(id) == id \in Range(ANIMATIONS)
             notSaved(id) == id \notin Range(data.items)
         IN  SelectSeq(data.items, known) \o SelectSeq(ANIMATIONS, notSaved)

\* AsyncStorage.setItem(key, JSON.stringify(list)) on [stored, raised]: the
\* promise is dropped, so a rejection is handled by nothing
setItem(st, key, list) ==
    IF storageUp THEN [st EXCEPT !.stored[key] = Blob("list", list)]
    ELSE [st EXCEPT !.raised = @ \cup {"unhandled rejection"}]

\* filterLiked ? orderedAnimations.filter(a => likes.has(a.id)) : orderedAnimations
filteredAnimations ==
    LET liked(id) == id \in Range(likes)
    IN  IF filterLiked THEN SelectSeq(orderedAnimations, liked) ELSE orderedAnimations

\* the list DraggableFlatList hands to onDragEnd: its data with the item at
\* `from` moved to `to` (1-based)
Moved(data, from, to) ==
    LET without == SubSeq(data, 1, from - 1) \o SubSeq(data, from + 1, Len(data))
    IN  SubSeq(without, 1, to - 1) \o <<data[from]>> \o SubSeq(without, to, Len(without))

LikesBlobs ==
    { Blob("none", <<>>), Blob("garbage", <<>>), Blob("number", <<>>), Blob("null", <<>>),
      Blob("string", <<"a", "b">>),
      Blob("list", <<>>), Blob("list", <<"soft-fade">>), Blob("list", <<"nope">>),
      Blob("list", <<"typewriter", "soft-fade">>) }

OrderBlobs ==
    { Blob("none", <<>>), Blob("garbage", <<>>), Blob("object", <<>>), Blob("null", <<>>),
      Blob("string", <<"a", "b">>),
      Blob("list", <<>>), Blob("list", <<"nope">>), Blob("list", <<"typewriter", "nope">>),
      Blob("list", <<"typewriter", "soft-fade">>),
      Blob("list", Moved(ANIMATIONS, 12, 1)) }

\* the ids the user toggles, the rows a drag starts and ends at, and the texts
\* the user types
LikeIds == {"soft-fade", "typewriter"}

DragRows == {1, 2}

TypedTexts == {<<>>, <<"a">>, [i \in 1..(MAX_CHARS + 1) |-> "x"]}

Issued == [stage |-> "issued", data |-> Blob("none", <<>>)]

\* the first start: the state of useState and the two getItem calls of the effect;
\* what a store that does not answer holds is never seen
InitShell ==
    /\ DelaysIdle
    /\ SeqIdle
    /\ TwIdle
    /\ ShowcaseIdle
    /\ typed = <<>>
    /\ likes = <<>>
    /\ filterLiked = FALSE
    /\ customText = useState_customText
    /\ orderedAnimations = ANIMATIONS
    /\ storageUp \in BOOLEAN
    /\ stored \in IF storageUp THEN [likes : LikesBlobs, order : OrderBlobs]
                 ELSE {[likes |-> Blob("none", <<>>), order |-> Blob("none", <<>>)]}
    /\ loads = [likes |-> Issued, order |-> Issued]
    /\ raised = {}
    /\ mounts = 1
    /\ shOps = 0
    /\ sinceMount = 0

\* the screen is closed and started again: the state is useState's again, the
\* promises of the old screen are gone, the store is what it was
Restart ==
    /\ shOps < MaxShellOps
    /\ likes' = <<>>
    /\ filterLiked' = FALSE
    /\ customText' = useState_customText
    /\ orderedAnimations' = ANIMATIONS
    /\ loads' = [likes |-> Issued, order |-> Issued]
    /\ mounts' = mounts + 1
    /\ shOps' = shOps + 1
    /\ sinceMount' = 0
    /\ UNCHANGED <<stored, storageUp, raised, typed>>
    /\ UNCHANGED <<delayVars, seqVars, twVars, scVars>>

\* the store answers a getItem: the promise has its value, or rejects
StorageReads(key) ==
    /\ loads[key].stage = "issued"
    /\ IF storageUp
       THEN /\ loads' = [loads EXCEPT ![key] = [stage |-> "read", data |-> stored[key]]]
            /\ raised' = raised
       ELSE /\ loads' = [loads EXCEPT ![key].stage = "done"]
            /\ raised' = raised \cup {"unhandled rejection"}
    /\ UNCHANGED <<likes, filterLiked, customText, orderedAnimations, stored, storageUp,
                   typed, mounts, shOps, sinceMount>>
    /\ UNCHANGED <<delayVars, seqVars, twVars, scVars>>

\* the then-callback of a getItem runs
LoadResolves(key) ==
    /\ loads[key].stage = "read"
    /\ loads' = [loads EXCEPT ![key].stage = "done"]
    /\ likes' = IF key = "likes" THEN likesLoaded(likes, loads[key].data) ELSE likes
    /\ orderedAnimations' = IF key = "order" THEN orderLoaded(orderedAnimations, loads[key].data)
                            ELSE orderedAnimations
    /\ UNCHANGED <<filterLiked, customText, stored, storageUp, raised, typed, mounts, shOps,
                   sinceMount>>
    /\ UNCHANGED <<delayVars, seqVars, twVars, scVars>>

handleToggleLike(id) ==
    /\ shOps < MaxShellOps
    /\ LET isNot(x) == x # id
           next == IF id \in Range(likes) THEN SelectSeq(likes, isNot) ELSE Append(likes, id)
           st == setItem([stored |-> stored, raised |-> raised], "likes", next)
       IN  /\ likes' = next
           /\ stored' = st.stored
           /\ raised' = st.raised
    /\ shOps' = shOps + 1
    /\ sinceMount' = sinceMount + 1
    /\ UNCHANGED <<filterLiked, customText, orderedAnimations, storageUp, loads, typed, mounts>>
    /\ UNCHANGED <<delayVars, seqVars, twVars, scVars>>

handleToggleFilter ==
    /\ shOps < MaxShellOps
    /\ filterLiked' = ~filterLiked
    /\ shOps' = shOps + 1
    /\ sinceMount' = sinceMount + 1
    /\ UNCHANGED <<likes, customText, orderedAnimations, stored, storageUp, loads, raised,
                   typed, mounts>>
    /\ UNCHANGED <<delayVars, seqVars, twVars, scVars>>

\* onDragEnd of the list, whose data is filteredAnimations, after a row was
\* dropped on another row
handleDragEnd(from, to) ==
    /\ shOps < MaxShellOps
    /\ from # to
    /\ from \in 1..Len(filteredAnimations)
    /\ to \in 1..Len(filteredAnimations)
    /\ LET data == Moved(filteredAnimations, from, to)
           st == setItem([stored |-> stored, raised |-> raised], "order", data)
       IN  /\ orderedAnimations' = data
           /\ stored' = st.stored
           /\ raised' = st.raised
    /\ shOps' = shOps + 1
    /\ sinceMount' = sinceMount + 1
    /\ UNCHANGED <<likes, filterLiked, customText, storageUp, loads, typed, mounts>>
    /\ UNCHANGED <<delayVars, seqVars, twVars, scVars>>

\* onChangeText={(t) => setCustomText(t.slice(0, MAX_CHARS))}
onChangeText(t) ==
    /\ shOps < MaxShellOps
    /\ LET sliced == SubSeq(t, 1, IF Len(t) < MAX_CHARS THEN Len(t) ELSE MAX_CHARS)
       IN  /\ sliced # customText
           /\ customText' = sliced
           /\ typed' = sliced
    /\ shOps' = shOps + 1
    /\ sinceMount' = sinceMount + 1
    /\ UNCHANGED <<likes, filterLiked, orderedAnimations, stored, storageUp, loads, raised,
                   mounts>>
    /\ UNCHANGED <<delayVars, seqVars, twVars, scVars>>

NextShell ==
    \/ Restart
    \/ \E key \in {"likes", "order"} : StorageReads(key)
    \/ \E key \in {"likes", "order"} : LoadResolves(key)
    \/ \E id \in LikeIds : handleToggleLike(id)
    \/ handleToggleFilter
    \/ \E from \in DragRows : \E to \in DragRows : handleDragEnd(from, to)
    \/ \E t \in TypedTexts : onChangeText(t)

SpecShell == InitShell /\ [][NextShell]_vars

-----------------------------------------------------------------------------
(* Claims about the showcase screen (checked under SpecShell)              *)

LoadDone(key) == loads[key].stage = "done"

IsPermutation(xs) == Len(xs) = Len(ANIMATIONS) /\ Range(xs) = Range(ANIMATIONS)

\* C21 as stated: the custom text is persisted; after it is changed and the
\* screen is restarted, the custom text is restored from the key-value store.
C21_CustomTextRestored ==
    (mounts > 1 /\ sinceMount = 0 /\ LoadDone("likes") /\ LoadDone("order")) =>
        customText = typed

C21_AfterStart ==
    /\ sinceMount = 0 => customText = <<>>
    /\ (sinceMount = 0 /\ storageUp /\ LoadDone("likes") /\ stored.likes.kind = "list") =>
          Range(likes) = Range(stored.likes.items)
    /\ (sinceMount = 0 /\ storageUp /\ LoadDone("order") /\ stored.order.kind = "list"
           /\ IsPermutation(stored.order.items)) =>
          orderedAnimations = stored.order.items

C21_TypingStoresNothing ==
    customText' # customText => stored' = stored

\* C21, corrected: the custom text is not persisted.  Typing writes nothing to
\* the key-value store, and after a restart the custom text is empty whatever
\* was typed before.  The liked set and the manual order are restored: with no
\* user operation since the start, once its load has completed the liked set is
\* the set of the stored list and the order is the stored list (when that lists
\* every registry preset once).
C21_CustomTextNotPersisted == []C21_AfterStart /\ [][C21_TypingStoresNothing]_vars

\* C21 witness: a text was typed, the screen was restarted and both loads have
\* completed; the custom text is empty, the stored likes and order are back
C21_Witness ==
    /\ mounts = 2 /\ sinceMount = 0
    /\ typed = <<"a">>
    /\ customText = <<>>
    /\ LoadDone("likes") /\ LoadDone("order")
    /\ likes = <<"typewriter", "soft-fade">>
    /\ orderedAnimations = Moved(ANIMATIONS, 12, 1)

\* a blob that is not JSON, or is JSON but not a list of known preset ids
MalformedBlob(b) ==
    \/ b.kind \in {"garbage", "number", "object", "null", "string"}
    \/ b.kind = "list" /\ \E i \in 1..Len(b.items) : b.items[i] \notin Range(ANIMATIONS)

\* C22: when the stored likes blob or the stored order blob is malformed, or the
\* store is unavailable, no error is raised and the screen continues with the
\* defaults: an empty liked set and the registry order.  (A load callback lets no
\* exception out, so what the formula states is the fall-back to the defaults.)
C22_MalformedFallsBack ==
    /\ (sinceMount = 0 /\ LoadDone("likes") /\ (~storageUp \/ MalformedBlob(stored.likes))) =>
          likes = <<>>
    /\ (sinceMount = 0 /\ LoadDone("order") /\ (~storageUp \/ MalformedBlob(stored.order))) =>
          orderedAnimations = ANIMATIONS

\* C28: after any sequence of like toggles, filter toggles, drags and the load of
\* the stored order, the ordered list holds each of the 12 registry presets
\* exactly once.
C28_OrderIsPermutation ==
    /\ Len(orderedAnimations) = 12
    /\ \A i \in 1..Len(ANIMATIONS) :
          Cardinality({k \in 1..Len(orderedAnimations) : orderedAnimations[k] = ANIMATIONS[i]}) = 1

\* C29: once the initial load of the likes has completed, the liked set in memory
\* is the liked set the store holds, however the load interleaved with toggles.
C29_LoadedLikesMatchStore ==
    (storageUp /\ LoadDone("likes") /\ stored.likes.kind = "list") =>
        Range(likes) = Range(stored.likes.items)

====
